---- MODULE Spec2Model ----
(***************************************************************************)
(* Model of the med-debt-optimizer engine (src/src/core): the strategy     *)
(* comparator and recommender, and the pure calculators they are built     *)
(* from.                                                                   *)
(*                                                                         *)
(* Number representation.  The engine computes in IEEE doubles; the model  *)
(* computes in integers:                                                   *)
(*   - whole-dollar amounts (everything the code passes through           *)
(*     Math.round: incomes, monthly payments, taxes, NPVs, the fields of   *)
(*     a yearly state) are integers;                                       *)
(*   - a loan balance (loans.totalBalance and the running balance of a     *)
(*     simulation) is an integer number of cents, so that Math.round on a  *)
(*     balance is a real conversion;                                       *)
(*   - an annual rate is an integer number of basis points (0.065 = 650),  *)
(*     a discretionary-income percentage is in percent (0.10 = 10), a      *)
(*     poverty-line multiplier in hundredths (2.25 = 225), pslfConfidence  *)
(*     in percent (0.85 = 85);                                             *)
(*   - Math.pow(1 + r, n) is a fixed-point number with SCALE as unit.      *)
(* Math.round is round-half-up (floor(x + 1/2)); products and quotients    *)
(* are taken in an order that stays inside 32-bit integers.                *)
(***************************************************************************)
EXTENDS Integers, Sequences, FiniteSets, TLC

\* ------------------------------------------------------------------------
\* Arithmetic helpers
\* ------------------------------------------------------------------------

SCALE == 10 ^ 8

Max(a, b) == IF a >= b THEN a ELSE b
Min(a, b) == IF a <= b THEN a ELSE b

\* Math.round(a / b) for b > 0: floor(a/b + 1/2)
RoundDiv(a, b) == (2 * a + b) \div (2 * b)

\* floor(a * b / c) for a >= 0, c > 0, c * b < 2^31
MulDiv(a, b, c) == (a \div c) * b + ((a % c) * b) \div c

\* Math.round(a * b / c) for a >= 0, c > 0, 2 * c * b < 2^31
RoundMulDiv(a, b, c) == (a \div c) * b + RoundDiv((a % c) * b, c)

\* <<quotient, remainder>> of a * b by c, for a, b >= 0 and 0 < c < 2^22,
\* by long multiplication on the base-256 digits of b
RECURSIVE MulDivRem(_, _, _)
MulDivRem(a, b, c) ==
  IF b = 0 THEN <<0, 0>>
  ELSE LET h  == MulDivRem(a, b \div 256, c)
           d  == b % 256
           r2 == 256 * h[2] + d * (a % c)
           q2 == 256 * h[1] + d * (a \div c)
       IN  <<q2 + r2 \div c, r2 % c>>

\* floor(a * b / SCALE) for 0 <= a, b < 46340 * 10^4, on the halves of a and b
MulScale(a, b) ==
  LET ah == a \div 10000
      al == a % 10000
      bh == b \div 10000
      bl == b % 10000
  IN  ah * bh + (ah * bl + al * bh + (al * bl) \div 10000) \div 10000

\* floor(x * SCALE / y) for x >= 0 and SCALE <= y < 2^22 * 100, with y taken to
\* six decimals
DivScale(x, y) == MulDivRem(x, SCALE \div 100, RoundDiv(y, 100))[1]

\* Math.pow(1 + num/den, n) in units of 1/SCALE, by repeated squaring
RECURSIVE Pow1p(_, _, _)
Pow1p(num, den, n) ==
  IF n <= 0 THEN SCALE
  ELSE LET h  == Pow1p(num, den, n \div 2)
           sq == MulScale(h, h)
       IN  IF n % 2 = 1 THEN sq + MulDiv(sq, num, den) ELSE sq

\* x * Math.pow(1 + num/den, n)
Grow(x, num, den, n) == MulScale(x, Pow1p(num, den, n))

\* a faulty variant of Discount: the amount compounded instead of discounted
DiscountCompounding(x, num, den, n) == Grow(x, num, den, n)

\* x / Math.pow(1 + num/den, n)
Discount(x, num, den, n) == DivScale(x, Pow1p(num, den, n))

\* the sum of s[lo..hi], by halves
RECURSIVE SumRange(_, _, _)
SumRange(s, lo, hi) ==
  IF lo > hi THEN 0
  ELSE IF lo = hi THEN s[lo]
  ELSE LET mid == (lo + hi) \div 2
       IN  SumRange(s, lo, mid) + SumRange(s, mid + 1, hi)

SumSeq(s) == SumRange(s, 1, Len(s))

\* ------------------------------------------------------------------------
\* Reference data (constants.ts, specialties.ts)
\* ------------------------------------------------------------------------

POVERTY_LINE_BASE == 15060
POVERTY_LINE_PER_PERSON == 5380

\* A poverty line that falls as the family grows.
getPovertyLineShrinking(familySize) ==
  POVERTY_LINE_BASE - Max(0, familySize - 1) * POVERTY_LINE_PER_PERSON

getPovertyLine(familySize) ==
  POVERTY_LINE_BASE + Max(0, familySize - 1) * POVERTY_LINE_PER_PERSON

IDR_PLANS ==
  [ SAVE    |-> [name |-> "SAVE (Saving on a Valuable Education)",
                 discretionaryIncomePercent |-> 10, povertyLineMultiplier |-> 225,
                 forgivenessYears |-> 25, interestSubsidy |-> TRUE,
                 capsPaymentAt10YearStandard |-> FALSE],
    PAYE    |-> [name |-> "PAYE (Pay As You Earn)",
                 discretionaryIncomePercent |-> 10, povertyLineMultiplier |-> 150,
                 forgivenessYears |-> 20, interestSubsidy |-> FALSE,
                 capsPaymentAt10YearStandard |-> TRUE],
    IBR_NEW |-> [name |-> "IBR (New Borrowers after 2014)",
                 discretionaryIncomePercent |-> 10, povertyLineMultiplier |-> 150,
                 forgivenessYears |-> 20, interestSubsidy |-> FALSE,
                 capsPaymentAt10YearStandard |-> TRUE],
    IBR_OLD |-> [name |-> "IBR (Borrowers before 2014)",
                 discretionaryIncomePercent |-> 15, povertyLineMultiplier |-> 150,
                 forgivenessYears |-> 25, interestSubsidy |-> FALSE,
                 capsPaymentAt10YearStandard |-> TRUE],
    ICR     |-> [name |-> "ICR (Income-Contingent Repayment)",
                 discretionaryIncomePercent |-> 20, povertyLineMultiplier |-> 100,
                 forgivenessYears |-> 25, interestSubsidy |-> FALSE,
                 capsPaymentAt10YearStandard |-> FALSE] ]

TRAINING_SALARIES ==
  [ ms4 |-> 0, pgy1 |-> 64000, pgy2 |-> 66000, pgy3 |-> 69000, pgy4 |-> 72000,
    pgy5 |-> 75000, pgy6 |-> 78000, pgy7 |-> 81000, fellow |-> 85000 ]

\* <<threshold, rate in percent>>
FEDERAL_BRACKETS_SINGLE ==
  << <<0, 10>>, <<11600, 12>>, <<47150, 22>>, <<100525, 24>>,
     <<191950, 32>>, <<243725, 35>>, <<609350, 37>> >>

FEDERAL_BRACKETS_MFJ ==
  << <<0, 10>>, <<23200, 12>>, <<94300, 22>>, <<201050, 24>>,
     <<383900, 32>>, <<487450, 35>>, <<731200, 37>> >>

FEDERAL_BRACKETS_MFS ==
  << <<0, 10>>, <<11600, 12>>, <<47150, 22>>, <<100525, 24>>,
     <<191950, 32>>, <<243725, 35>>, <<365600, 37>> >>

\* top marginal state rates, in basis points
STATE_TAX_RATES ==
  (  "AL" :> 500 @@ "AK" :> 0 @@ "AZ" :> 250 @@ "AR" :> 470 @@ "CA" :> 1330 @@
     "CO" :> 440 @@ "CT" :> 699 @@ "DE" :> 660 @@ "FL" :> 0 @@ "GA" :> 549 @@
     "HI" :> 1100 @@ "ID" :> 580 @@ "IL" :> 495 @@ "IN" :> 315 @@ "IA" :> 600 @@
     "KS" :> 570 @@ "KY" :> 400 @@ "LA" :> 425 @@ "ME" :> 715 @@ "MD" :> 575 @@
     "MA" :> 900 @@ "MI" :> 425 @@ "MN" :> 985 @@ "MS" :> 500 @@ "MO" :> 480 @@
     "MT" :> 590 @@ "NE" :> 584 @@ "NV" :> 0 @@ "NH" :> 500 @@ "NJ" :> 1075 @@
     "NM" :> 590 @@ "NY" :> 1090 @@ "NC" :> 475 @@ "ND" :> 225 @@ "OH" :> 350 @@
     "OK" :> 475 @@ "OR" :> 990 @@ "PA" :> 307 @@ "RI" :> 599 @@ "SC" :> 640 @@
     "SD" :> 0 @@ "TN" :> 0 @@ "TX" :> 0 @@ "UT" :> 465 @@ "VT" :> 875 @@
     "VA" :> 575 @@ "WA" :> 0 @@ "WV" :> 550 @@ "WI" :> 765 @@ "WY" :> 0 @@
     "DC" :> 1050 )

DEFAULTS ==
  [ discountRate |-> 500, incomeGrowthRate |-> 300, inflationRate |-> 250,
    refiRate |-> 550, refiTermYears |-> 10, pslfConfidence |-> 85,
    savePlanAvailable |-> FALSE ]

PSLF == [ requiredPayments |-> 120 ]

\* medianAttendingSalary of the specialties the model draws from
SPECIALTIES ==
  [ family_medicine    |-> [medianAttendingSalary |-> 255000, typicalTrainingYears |-> 3],
    internal_medicine  |-> [medianAttendingSalary |-> 275000, typicalTrainingYears |-> 3],
    orthopedic_surgery |-> [medianAttendingSalary |-> 560000, typicalTrainingYears |-> 5],
    other              |-> [medianAttendingSalary |-> 320000, typicalTrainingYears |-> 4] ]

getSpecialty(key) ==
  IF key \in DOMAIN SPECIALTIES THEN SPECIALTIES[key] ELSE SPECIALTIES["other"]

\* Strings are sequences of one-character strings.
WhiteSpace == {" "}
Digits     == {"0", "1", "5"}

digitValue(ch) == CASE ch = "0" -> 0 [] ch = "1" -> 1 [] ch = "5" -> 5

\* value.replace(/,/g, '')
stripCommas(s) == SelectSeq(s, LAMBDA ch : ch # ",")

\* String.prototype.trim
trim(s) ==
  LET kept == {i \in 1..Len(s) : s[i] \notin WhiteSpace}
  IN  IF kept = {} THEN <<>>
      ELSE SubSeq(s, CHOOSE i \in kept : \A j \in kept : i <= j,
                     CHOOSE i \in kept : \A j \in kept : i >= j)

\* a parsed number, or NaN
NaN == [nan |-> TRUE]
number(x) == [nan |-> FALSE, value |-> x]

\* the length of the longest prefix of s made of digits
digitPrefix(s) ==
  CHOOSE n \in 0..Len(s) :
    /\ \A i \in 1..n : s[i] \in Digits
    /\ n < Len(s) => s[n + 1] \notin Digits

\* the value of the decimal digit string s
RECURSIVE decimalValue(_)
decimalValue(s) ==
  IF s = <<>> THEN 0
  ELSE 10 * decimalValue(SubSeq(s, 1, Len(s) - 1)) + digitValue(s[Len(s)])

\* parseFloat on strings without '.', 'e' or "Infinity": leading white space is
\* skipped, then an optional sign and the longest run of digits are read and
\* the rest is ignored; NaN when no digit is read
parseFloat(s) ==
  LET kept     == {i \in 1..Len(s) : s[i] \notin WhiteSpace}
      start    == IF kept = {} THEN Len(s) + 1 ELSE CHOOSE i \in kept : \A j \in kept : i <= j
      t        == SubSeq(s, start, Len(s))
      negative == t # <<>> /\ t[1] = "-"
      signed   == t # <<>> /\ t[1] \in {"-", "+"}
      u        == IF signed THEN Tail(t) ELSE t
      n        == digitPrefix(u)
  IN  IF n = 0 THEN NaN
      ELSE IF negative THEN number(0 - decimalValue(SubSeq(u, 1, n)))
      ELSE number(decimalValue(SubSeq(u, 1, n)))

\* x || 0 for a parsed number x: NaN and 0 are falsy
orZero(x) == IF x.nan THEN 0 ELSE IF x.value = 0 THEN 0 ELSE x.value

\* The value parsed without the commas removed.
sanitizeNumericValueUnstripped(value) == orZero(parseFloat(trim(value)))

sanitizeNumericValue(value) == orZero(parseFloat(trim(stripCommas(value))))

\* ------------------------------------------------------------------------
\* calculations.ts
\* ------------------------------------------------------------------------

stages == <<"pgy1", "pgy2", "pgy3", "pgy4", "pgy5", "pgy6", "pgy7", "fellow">>

\* stages.indexOf(stage), 0-based, -1 when absent
indexOf(stage) ==
  IF \E i \in 1..Len(stages) : stages[i] = stage
  THEN (CHOOSE i \in 1..Len(stages) : stages[i] = stage) - 1
  ELSE -1

\* An entry whose attending income grows from year 0 instead of from the
\* transition year.
projectIncomeYearGrownFromStart(career, year, growthRate) ==
  LET idx        == indexOf(career.currentStage)
      stageIndex == IF idx = -1 THEN 0 ELSE idx
      training   == career.trainingYearsRemaining - year > 0
      stage      == IF training
                    THEN stages[Min(stageIndex + year, Len(stages) - 1) + 1]
                    ELSE "attending"
      baseSalary == IF training
                    THEN (IF TRAINING_SALARIES[stage] # 0 THEN TRAINING_SALARIES[stage]
                          ELSE TRAINING_SALARIES["fellow"])
                    ELSE (IF career.expectedAttendingSalary # 0
                          THEN career.expectedAttendingSalary
                          ELSE getSpecialty(career.specialty).medianAttendingSalary)
      income     == Grow(baseSalary * 1000, growthRate, 10000, year)
  IN  [year |-> year, income |-> RoundDiv(income, 1000), stage |-> stage]

\* one entry of projectIncome's result (the body of its loop)
projectIncomeYear(career, year, growthRate) ==
  LET idx        == indexOf(career.currentStage)
      stageIndex == IF idx = -1 THEN 0 ELSE idx
      training   == career.trainingYearsRemaining - year > 0
      stage      == IF training
                    THEN stages[Min(stageIndex + year, Len(stages) - 1) + 1]
                    ELSE "attending"
      baseSalary == IF training
                    THEN (IF TRAINING_SALARIES[stage] # 0 THEN TRAINING_SALARIES[stage]
                          ELSE TRAINING_SALARIES["fellow"])
                    ELSE (IF career.expectedAttendingSalary # 0
                          THEN career.expectedAttendingSalary
                          ELSE getSpecialty(career.specialty).medianAttendingSalary)
      exponent   == IF training THEN year ELSE year - career.trainingYearsRemaining
      income     == Grow(baseSalary * 1000, growthRate, 10000, exponent)
  IN  [year |-> year, income |-> RoundDiv(income, 1000), stage |-> stage]

projectIncome(career, years, growthRate) ==
  [i \in 1..years |-> projectIncomeYear(career, i - 1, growthRate)]

\* a faulty variant of calculateIDRPayment: the spouse's income counted under
\* every filing status
calculateIDRPaymentCombined(plan, agi, familySize, spouseAgi, filingStatus) ==
  LET incomeForCalc == agi + spouseAgi
      povertyLine   == getPovertyLine(familySize)
      discretionaryIncome ==
        Max(0, incomeForCalc * 100 - povertyLine * plan.povertyLineMultiplier)
  IN  Max(0, RoundMulDiv(discretionaryIncome, plan.discretionaryIncomePercent, 120000))

calculateIDRPayment(plan, agi, familySize, spouseAgi, filingStatus) ==
  LET incomeForCalc == IF filingStatus = "mfs" THEN agi ELSE agi + spouseAgi
      povertyLine   == getPovertyLine(familySize)
      \* discretionary income, in hundredths of a dollar
      discretionaryIncome ==
        Max(0, incomeForCalc * 100 - povertyLine * plan.povertyLineMultiplier)
  IN  Max(0, RoundMulDiv(discretionaryIncome, plan.discretionaryIncomePercent, 120000))

\* balance * (r * (1+r)^n) / ((1+r)^n - 1) with r = rate/12, rounded to dollars;
\* balance in cents, rate in basis points.  With p = (1+r)^n the payment is
\* x + x / (p - 1) for x = balance * r, here in hundredths of a cent.
amortizedPayment(balance, rate, numPayments) ==
  LET p == Pow1p(rate, 120000, numPayments)
      x == MulDiv(balance, rate, 1200)
      c == RoundDiv(p - SCALE, 100)
  IN  RoundDiv(x + MulDivRem(x, SCALE \div 100, c)[1], 10000)

calculate10YearStandardPayment(balance, interestRate) ==
  LET numPayments == 120
  IN  IF interestRate = 0 THEN RoundDiv(balance, numPayments * 100)
      ELSE amortizedPayment(balance, interestRate, numPayments)

getEffectiveIDRPayment(plan, calculatedPayment, balance, interestRate) ==
  IF plan.capsPaymentAt10YearStandard
  THEN Min(calculatedPayment, calculate10YearStandardPayment(balance, interestRate))
  ELSE calculatedPayment

calculateAmortizationPayment(principal, annualRate, years) ==
  LET numPayments == years * 12
  IN  IF annualRate = 0 THEN RoundDiv(principal, numPayments * 100)
      ELSE amortizedPayment(principal, annualRate, numPayments)

\* One month with the balance always moved by interest less payment (no subsidy branch).
loanMonthUnsubsidized(m, interestRate, monthlyPayment, plan) ==
  LET monthlyInterest == MulDiv(m[1], interestRate, 120000)
  IN  <<m[1] + monthlyInterest - monthlyPayment, m[2] + monthlyInterest, m[3]>>

\* One month of projectLoanBalance's inner loop.  m = <<balance, interestAccrued,
\* interestSubsidized>> in cents; monthlyPayment in cents.
loanMonth(m, interestRate, monthlyPayment, plan) ==
  LET balance         == m[1]
      monthlyInterest == MulDiv(balance, interestRate, 120000)
      fraction        == ((balance % 120000) * interestRate) % 120000
      \* monthlyPayment < monthlyInterest, on the unrounded interest
      below == \/ monthlyPayment < monthlyInterest
               \/ monthlyPayment = monthlyInterest /\ fraction > 0
  IN  IF plan.interestSubsidy /\ below
      THEN <<balance, m[2] + monthlyInterest, m[3] + (monthlyInterest - monthlyPayment)>>
      ELSE <<balance + monthlyInterest - monthlyPayment, m[2] + monthlyInterest, m[3]>>

\* the first n months of a year in order, from the state m the year starts in
RECURSIVE loanMonthsRun(_, _, _, _, _)
loanMonthsRun(m, interestRate, monthlyPayment, plan, n) ==
  IF n = 0 THEN m
  ELSE loanMonth(loanMonthsRun(m, interestRate, monthlyPayment, plan, n - 1),
                 interestRate, monthlyPayment, plan)

\* the inner loop: the twelve months of a year
loanMonths(m, interestRate, monthlyPayment, plan) ==
  loanMonthsRun(m, interestRate, monthlyPayment, plan, 12)

\* one iteration of projectLoanBalance's outer loop, for position `year` (0-based)
loanYear(balance, cumulativePayments, interestRate, annualPayments, plan, year) ==
  LET annualPayment == annualPayments[year + 1]
      m      == loanMonths(<<balance, 0, 0>>, interestRate,
                           RoundDiv(annualPayment * 100, 12), plan)
      ending == Max(0, m[1])
      cumul  == cumulativePayments + annualPayment
  IN  [states  |-> << [year               |-> year + 1,
                       startingBalance    |-> RoundDiv(balance, 100),
                       interestAccrued    |-> RoundDiv(m[2], 100),
                       paymentsMade       |-> annualPayment,
                       endingBalance      |-> RoundDiv(ending, 100),
                       interestSubsidized |-> RoundDiv(m[3], 100),
                       cumulativePayments |-> cumul] >>,
       balance |-> ending,
       cumulativePayments |-> cumul]

\* The outer loop run over every position, without the stop at balance <= 0.
RECURSIVE loanYearsNoStop(_, _, _, _, _, _, _)
loanYearsNoStop(balance, cumulativePayments, interestRate, annualPayments, plan, lo, hi) ==
  IF lo > hi
  THEN [states |-> <<>>, balance |-> balance, cumulativePayments |-> cumulativePayments]
  ELSE IF lo = hi
  THEN loanYear(balance, cumulativePayments, interestRate, annualPayments, plan, lo)
  ELSE LET mid   == (lo + hi) \div 2
           first == loanYearsNoStop(balance, cumulativePayments, interestRate,
                                    annualPayments, plan, lo, mid)
           rest  == loanYearsNoStop(first.balance, first.cumulativePayments,
                                    interestRate, annualPayments, plan, mid + 1, hi)
       IN  [states  |-> first.states \o rest.states,
            balance |-> rest.balance,
            cumulativePayments |-> rest.cumulativePayments]

\* projectLoanBalance's outer loop over positions lo..hi (0-based), started with
\* the running balance and cumulative payments: the states pushed, and the
\* balance and cumulative payments it ends with.  The range is run as its first
\* half followed, unless the loop has stopped (balance <= 0), by the rest.
RECURSIVE loanYears(_, _, _, _, _, _, _)
loanYears(balance, cumulativePayments, interestRate, annualPayments, plan, lo, hi) ==
  IF lo > hi
  THEN [states |-> <<>>, balance |-> balance, cumulativePayments |-> cumulativePayments]
  ELSE IF lo = hi
  THEN loanYear(balance, cumulativePayments, interestRate, annualPayments, plan, lo)
  ELSE LET mid   == (lo + hi) \div 2
           first == loanYears(balance, cumulativePayments, interestRate,
                              annualPayments, plan, lo, mid)
       IN  IF first.balance <= 0 THEN first
           ELSE LET rest == loanYears(first.balance, first.cumulativePayments,
                                      interestRate, annualPayments, plan, mid + 1, hi)
                IN  [states  |-> first.states \o rest.states,
                     balance |-> rest.balance,
                     cumulativePayments |-> rest.cumulativePayments]

projectLoanBalance(initialBalance, interestRate, annualPayments, plan) ==
  loanYears(initialBalance, 0, interestRate, annualPayments, plan,
            0, Len(annualPayments) - 1).states

getBrackets(filingStatus) ==
  CASE filingStatus = "mfj" -> FEDERAL_BRACKETS_MFJ
    [] filingStatus = "mfs" -> FEDERAL_BRACKETS_MFS
    [] OTHER                -> FEDERAL_BRACKETS_SINGLE

\* A bracket walk that never lowers the remaining income to the threshold.
RECURSIVE bracketWalkWholeIncome(_, _, _)
bracketWalkWholeIncome(brackets, i, remainingIncome) ==
  IF i = 0 THEN 0
  ELSE IF remainingIncome > brackets[i][1]
       THEN (remainingIncome - brackets[i][1]) * brackets[i][2]
            + bracketWalkWholeIncome(brackets, i - 1, remainingIncome)
       ELSE bracketWalkWholeIncome(brackets, i - 1, remainingIncome)

\* the bracket walk from index i down to 1; returns the tax in cents
RECURSIVE bracketWalk(_, _, _)
bracketWalk(brackets, i, remainingIncome) ==
  IF i = 0 THEN 0
  ELSE IF remainingIncome > brackets[i][1]
       THEN (remainingIncome - brackets[i][1]) * brackets[i][2]
            + bracketWalk(brackets, i - 1, brackets[i][1])
       ELSE bracketWalk(brackets, i - 1, remainingIncome)

calculateFederalTax(taxableIncome, filingStatus) ==
  LET brackets == getBrackets(filingStatus)
  IN  RoundDiv(bracketWalk(brackets, Len(brackets), taxableIncome), 100)

\* STATE_TAX_RATES[state] || 0.05
stateRateOrDefault(state) ==
  IF state \in DOMAIN STATE_TAX_RATES /\ STATE_TAX_RATES[state] # 0
  THEN STATE_TAX_RATES[state]
  ELSE 500

estimateTaxOnForgiveness(forgivenAmount, agiInForgivenessYear, state, filingStatus) ==
  IF forgivenAmount <= 0 THEN 0
  ELSE LET taxWithoutForgiveness == calculateFederalTax(agiInForgivenessYear, filingStatus)
           taxWithForgiveness    == calculateFederalTax(agiInForgivenessYear + forgivenAmount,
                                                        filingStatus)
           federalTax == taxWithForgiveness - taxWithoutForgiveness
           stateRate  == stateRateOrDefault(state)
       IN  federalTax + RoundMulDiv(forgivenAmount, stateRate, 10000)

\* sum over year in lo..hi (1-based) of annualPayments[year] / (1 + discountRate)^year,
\* in cents; the range is summed by halves
RECURSIVE discountedSum(_, _, _, _)
discountedSum(annualPayments, discountRate, lo, hi) ==
  IF lo > hi THEN 0
  ELSE IF lo = hi THEN Discount(annualPayments[lo] * 100, discountRate, 10000, lo)
  ELSE LET mid == (lo + hi) \div 2
       IN  discountedSum(annualPayments, discountRate, lo, mid)
           + discountedSum(annualPayments, discountRate, mid + 1, hi)

calculateNPV(annualPayments, forgivenessYear, taxOnForgiveness, discountRate) ==
  LET payments == discountedSum(annualPayments, discountRate, 1, Len(annualPayments))
      tax      == IF taxOnForgiveness > 0 /\ forgivenessYear > 0
                  THEN Discount(taxOnForgiveness * 100, discountRate, 10000, forgivenessYear)
                  ELSE 0
  IN  RoundDiv(payments + tax, 100)

\* The comparison with equal net costs recommending 'mfs'.
compareFilingStatusTiesToMfs(borrowerAgi, spouseAgi, familySize, plan, loanBalance, interestRate) ==
  LET mfjPayment   == calculateIDRPayment(plan, borrowerAgi, familySize, spouseAgi, "mfj")
      mfjEffective == getEffectiveIDRPayment(plan, mfjPayment, loanBalance, interestRate)
      mfjTax       == calculateFederalTax(borrowerAgi + spouseAgi, "mfj")
      mfsPayment   == calculateIDRPayment(plan, borrowerAgi, familySize, 0, "mfs")
      mfsEffective == getEffectiveIDRPayment(plan, mfsPayment, loanBalance, interestRate)
      mfsBorrowerTax == calculateFederalTax(borrowerAgi, "mfs")
      mfsSpouseTax   == calculateFederalTax(spouseAgi, "mfs")
      mfsTotalTax  == mfsBorrowerTax + mfsSpouseTax
      mfjNetCost   == mfjEffective * 12 + mfjTax
      mfsNetCost   == mfsEffective * 12 + mfsTotalTax
  IN  [ mfj |-> [totalTax |-> mfjTax, loanPayment |-> mfjEffective * 12,
                 netAnnualCost |-> mfjNetCost],
        mfs |-> [totalTax |-> mfsTotalTax, loanPayment |-> mfsEffective * 12,
                 netAnnualCost |-> mfsNetCost],
        recommendation |-> IF mfjNetCost < mfsNetCost THEN "mfj" ELSE "mfs",
        annualSavings  |-> IF mfjNetCost >= mfsNetCost THEN mfjNetCost - mfsNetCost
                           ELSE mfsNetCost - mfjNetCost ]

compareFilingStatus(borrowerAgi, spouseAgi, familySize, plan, loanBalance, interestRate) ==
  LET mfjPayment   == calculateIDRPayment(plan, borrowerAgi, familySize, spouseAgi, "mfj")
      mfjEffective == getEffectiveIDRPayment(plan, mfjPayment, loanBalance, interestRate)
      mfjTax       == calculateFederalTax(borrowerAgi + spouseAgi, "mfj")
      mfsPayment   == calculateIDRPayment(plan, borrowerAgi, familySize, 0, "mfs")
      mfsEffective == getEffectiveIDRPayment(plan, mfsPayment, loanBalance, interestRate)
      mfsBorrowerTax == calculateFederalTax(borrowerAgi, "mfs")
      mfsSpouseTax   == calculateFederalTax(spouseAgi, "mfs")
      mfsTotalTax  == mfsBorrowerTax + mfsSpouseTax
      mfjNetCost   == mfjEffective * 12 + mfjTax
      mfsNetCost   == mfsEffective * 12 + mfsTotalTax
  IN  [ mfj |-> [totalTax |-> mfjTax, loanPayment |-> mfjEffective * 12,
                 netAnnualCost |-> mfjNetCost],
        mfs |-> [totalTax |-> mfsTotalTax, loanPayment |-> mfsEffective * 12,
                 netAnnualCost |-> mfsNetCost],
        recommendation |-> IF mfjNetCost <= mfsNetCost THEN "mfj" ELSE "mfs",
        annualSavings  |-> IF mfjNetCost >= mfsNetCost THEN mfjNetCost - mfsNetCost
                           ELSE mfsNetCost - mfjNetCost ]

\* Math.round((totalDebt / expectedAttendingSalary) * 100) / 100, in hundredths;
\* totalDebt in cents
getDebtToIncomeRatio(totalDebt, expectedAttendingSalary) ==
  RoundDiv(totalDebt, expectedAttendingSalary)

\* ------------------------------------------------------------------------
\* strategies.ts
\* ------------------------------------------------------------------------

\* what a call that dereferences undefined produces instead of a result
TypeError == [error |-> "TypeError"]

\* a property that is absent (JavaScript's undefined)
undefined == [absent |-> TRUE]

\* Math.min() and Math.max() of no arguments
Infinity == 2 ^ 30
NegInfinity == 0 - Infinity

Range(s) == {s[i] : i \in DOMAIN s}

minOf(s) ==
  IF s = <<>> THEN Infinity
  ELSE CHOOSE x \in Range(s) : \A y \in Range(s) : x <= y

maxOf(s) ==
  IF s = <<>> THEN NegInfinity
  ELSE CHOOSE x \in Range(s) : \A y \in Range(s) : x >= y

\* incomeProjection[year]?.income || incomeProjection[incomeProjection.length - 1].income
\* (year is 0-based)
incomeAt(incomeProjection, year) ==
  IF year >= 0 /\ year < Len(incomeProjection) /\ incomeProjection[year + 1].income # 0
  THEN incomeProjection[year + 1].income
  ELSE incomeProjection[Len(incomeProjection)].income

\* a faulty variant of monthlyPaymentsByYear: the first year's payment computed
\* from the entered AGI instead of the projected income
monthlyPaymentsByYearFromAgi(inputs, incomeProjection, plan, years) ==
  [y \in 1..Max(0, years) |->
     getEffectiveIDRPayment(
       plan,
       calculateIDRPayment(plan,
                           IF y = 1 THEN inputs.personal.agi
                           ELSE incomeAt(incomeProjection, y - 1),
                           inputs.personal.familySize, inputs.personal.spouseAgi,
                           inputs.personal.filingStatus),
       inputs.loans.totalBalance, inputs.loans.weightedInterestRate)]

\* the payment loop shared by the PSLF and IDR calculators: the effective monthly
\* payment of each of the `years` years
monthlyPaymentsByYear(inputs, incomeProjection, plan, years) ==
  [y \in 1..Max(0, years) |->
     getEffectiveIDRPayment(
       plan,
       calculateIDRPayment(plan, incomeAt(incomeProjection, y - 1),
                           inputs.personal.familySize, inputs.personal.spouseAgi,
                           inputs.personal.filingStatus),
       inputs.loans.totalBalance, inputs.loans.weightedInterestRate)]

\* yearlyBreakdown[yearlyBreakdown.length - 1]?.endingBalance || 0
lastEndingBalance(yearlyBreakdown) ==
  IF Len(yearlyBreakdown) = 0 THEN 0
  ELSE yearlyBreakdown[Len(yearlyBreakdown)].endingBalance

\* Math.ceil(a / b) for b > 0
CeilDiv(a, b) == 0 - ((0 - a) \div b)

\* a faulty variant of adjustedNPV: the NPV weighted by the PSLF confidence, as the
\* comment above the computation announces
adjustedNPVWeighted(inputs, annualPayments, yearsRemaining) ==
  MulDiv(calculateNPV(annualPayments, yearsRemaining, 0, inputs.preferences.discountRate),
         inputs.preferences.pslfConfidence, 100)

\* The NPV with the starting balance taxed as forgiven income in the last year.
adjustedNPVTaxed(inputs, annualPayments, yearsRemaining) ==
  calculateNPV(annualPayments, yearsRemaining,
               estimateTaxOnForgiveness(inputs.loans.totalBalance \div 100, inputs.personal.agi,
                                        inputs.personal.state, inputs.personal.filingStatus),
               inputs.preferences.discountRate)

\* a faulty variant of adjustedNPV: the NPV divided by the PSLF confidence, so
\* that a doubtful borrower sees PSLF as dearer
adjustedNPVOverConfidence(inputs, annualPayments, yearsRemaining) ==
  MulDiv(calculateNPV(annualPayments, yearsRemaining, 0, inputs.preferences.discountRate),
         100, inputs.preferences.pslfConfidence)

\* the NPV the PSLF result reports, from its payment stream
adjustedNPV(inputs, annualPayments, yearsRemaining) ==
  calculateNPV(annualPayments, yearsRemaining, 0, inputs.preferences.discountRate)

calculatePSLFStrategy(inputs, incomeProjection, underlyingPlan) ==
  IF underlyingPlan \notin DOMAIN IDR_PLANS THEN TypeError
  ELSE
  LET plan              == IDR_PLANS[underlyingPlan]
      paymentsRemaining == PSLF.requiredPayments - inputs.loans.pslfQualifyingPayments
      yearsRemaining    == CeilDiv(paymentsRemaining, 12)
      monthly           == monthlyPaymentsByYear(inputs, incomeProjection, plan, yearsRemaining)
      annualPayments    == [y \in DOMAIN monthly |-> monthly[y] * 12]
      yearlyBreakdown   == projectLoanBalance(inputs.loans.totalBalance,
                                              inputs.loans.weightedInterestRate,
                                              annualPayments, plan)
  IN  [ strategyName      |-> "PSLF",
        totalPayments     |-> SumSeq(annualPayments),
        forgivenessAmount |-> lastEndingBalance(yearlyBreakdown),
        taxOnForgiveness  |-> 0,
        npv               |-> adjustedNPV(inputs, annualPayments, yearsRemaining),
        totalYears        |-> yearsRemaining,
        monthlyPaymentRange |-> [min |-> minOf(monthly), max |-> maxOf(monthly)],
        yearlyBreakdown   |-> yearlyBreakdown,
        risks |-> << "Requires continuous employment at PSLF-eligible employer",
                     "Must recertify employment annually",
                     "Program could be modified by future legislation" >>
                  \o (IF inputs.preferences.pslfConfidence < 80
                      THEN << "Your confidence level ("
                              \o ToString(inputs.preferences.pslfConfidence)
                              \o "%) suggests hedging" >>
                      ELSE << >>) ]

calculateIDRStrategy(inputs, incomeProjection, planName) ==
  IF planName \notin DOMAIN IDR_PLANS THEN TypeError
  ELSE
  LET plan            == IDR_PLANS[planName]
      years           == plan.forgivenessYears - (inputs.loans.idrQualifyingPayments \div 12)
      monthly         == monthlyPaymentsByYear(inputs, incomeProjection, plan, years)
      annualPayments  == [y \in DOMAIN monthly |-> monthly[y] * 12]
      yearlyBreakdown == projectLoanBalance(inputs.loans.totalBalance,
                                            inputs.loans.weightedInterestRate,
                                            annualPayments, plan)
      finalBalance    == lastEndingBalance(yearlyBreakdown)
      forgivenessYearIncome == incomeAt(incomeProjection, years - 1)
      taxOnForgiveness == estimateTaxOnForgiveness(finalBalance, forgivenessYearIncome,
                                                   inputs.personal.state,
                                                   inputs.personal.filingStatus)
  IN  [ strategyName      |-> planName,
        totalPayments     |-> SumSeq(annualPayments),
        forgivenessAmount |-> finalBalance,
        taxOnForgiveness  |-> taxOnForgiveness,
        npv               |-> calculateNPV(annualPayments, years, taxOnForgiveness,
                                           inputs.preferences.discountRate),
        totalYears        |-> years,
        monthlyPaymentRange |-> [min |-> minOf(monthly), max |-> maxOf(monthly)],
        yearlyBreakdown   |-> yearlyBreakdown,
        risks |-> << "Forgiveness is taxed as ordinary income (could be $50k-$150k+ tax bill)",
                     "Long repayment period (20-25 years)",
                     "Balance may grow significantly during training years" >>
                  \o (IF planName = "SAVE"
                      THEN << "SAVE plan currently enjoined by litigation - may not be available" >>
                      ELSE << >>) ]

\* `Refinance (${termYears}yr @ ${(refiRate * 100).toFixed(1)}%)`
refiName(refiRate, termYears) ==
  LET tenths == RoundDiv(refiRate, 10)
  IN  "Refinance (" \o ToString(termYears) \o "yr @ " \o ToString(tenths \div 10)
      \o "." \o ToString(tenths % 10) \o "%)"

\* one iteration of calculateRefiStrategy's amortization loop
refiYear(balance, cumulative, refiRate, annualPayment, year) ==
  LET interestAccrued == MulDiv(balance, refiRate, 10000)
      principalPaid   == annualPayment * 100 - interestAccrued
      ending          == Max(0, balance - principalPaid)
      cumul           == cumulative + annualPayment
  IN  [states  |-> << [year               |-> year,
                       startingBalance    |-> RoundDiv(balance, 100),
                       interestAccrued    |-> RoundDiv(interestAccrued, 100),
                       paymentsMade       |-> annualPayment,
                       endingBalance      |-> RoundDiv(ending, 100),
                       interestSubsidized |-> 0,
                       cumulativePayments |-> cumul] >>,
       balance |-> ending,
       cumulative |-> cumul]

\* the amortization loop of calculateRefiStrategy over years lo..hi (1-based),
\* run as its first half followed by the rest
RECURSIVE refiYears(_, _, _, _, _, _)
refiYears(balance, cumulative, refiRate, annualPayment, lo, hi) ==
  IF lo > hi THEN [states |-> <<>>, balance |-> balance, cumulative |-> cumulative]
  ELSE IF lo = hi THEN refiYear(balance, cumulative, refiRate, annualPayment, lo)
  ELSE LET mid   == (lo + hi) \div 2
           first == refiYears(balance, cumulative, refiRate, annualPayment, lo, mid)
           rest  == refiYears(first.balance, first.cumulative, refiRate,
                              annualPayment, mid + 1, hi)
       IN  [states  |-> first.states \o rest.states,
            balance |-> rest.balance,
            cumulative |-> rest.cumulative]

calculateRefiStrategy(inputs, incomeProjection, refiRate, termYears) ==
  LET monthlyPayment == calculateAmortizationPayment(inputs.loans.totalBalance,
                                                     refiRate, termYears)
      annualPayment  == monthlyPayment * 12
      annualPayments == [y \in 1..termYears |-> annualPayment]
  IN  [ strategyName      |-> refiName(refiRate, termYears),
        totalPayments     |-> annualPayment * termYears,
        forgivenessAmount |-> 0,
        taxOnForgiveness  |-> 0,
        npv               |-> calculateNPV(annualPayments, 0, 0,
                                           inputs.preferences.discountRate),
        totalYears        |-> termYears,
        monthlyPaymentRange |-> [min |-> monthlyPayment, max |-> monthlyPayment],
        yearlyBreakdown   |-> refiYears(inputs.loans.totalBalance, 0, refiRate,
                                        annualPayment, 1, termYears).states,
        risks |-> << "Permanently lose all federal protections",
                     "Cannot return to IDR or PSLF after refinancing",
                     "No forbearance/deferment options",
                     "High monthly payments during training years" >> ]

\* a faulty variant of insertByNpv: r put before the elements of equal npv, as an
\* unstable sort may do
RECURSIVE insertByNpvBeforeEquals(_, _)
insertByNpvBeforeEquals(sorted, r) ==
  IF sorted = <<>> THEN <<r>>
  ELSE IF sorted[Len(sorted)].npv < r.npv THEN Append(sorted, r)
       ELSE Append(insertByNpvBeforeEquals(SubSeq(sorted, 1, Len(sorted) - 1), r),
                   sorted[Len(sorted)])

\* results.sort((a, b) => a.npv - b.npv): a stable sort, ascending by npv.
\* insertByNpv puts r after every element whose npv is <= r.npv.
RECURSIVE insertByNpv(_, _)
insertByNpv(sorted, r) ==
  IF sorted = <<>> THEN <<r>>
  ELSE IF sorted[Len(sorted)].npv <= r.npv THEN Append(sorted, r)
       ELSE Append(insertByNpv(SubSeq(sorted, 1, Len(sorted) - 1), r), sorted[Len(sorted)])

\* a faulty variant of sortByNpv: the results left in the order they were pushed
sortByNpvUnsorted(results) == results

\* results.sort((a, b) => a.npv - b.npv)
RECURSIVE sortByNpv(_)
sortByNpv(results) ==
  IF results = <<>> THEN <<>>
  ELSE insertByNpv(sortByNpv(SubSeq(results, 1, Len(results) - 1)), results[Len(results)])

\* a faulty variant of includePSLF: PSLF evaluated for every borrower
includePSLFAlways(inputs) == TRUE

\* whether the PSLF strategy is evaluated
includePSLF(inputs) == inputs.personal.pslfEligibleEmployer

\* plansToCompare, after the unshift
plansToCompare(inputs) ==
  (IF inputs.preferences.savePlanAvailable THEN <<"SAVE">> ELSE <<>>)
  \o <<"PAYE", "IBR_NEW">>

\* for (const planName of plansToCompare) results.push(calculateIDRStrategy(...))
RECURSIVE idrStrategies(_, _, _)
idrStrategies(inputs, incomeProjection, plans) ==
  IF plans = <<>> THEN <<>>
  ELSE <<calculateIDRStrategy(inputs, incomeProjection, Head(plans))>>
       \o idrStrategies(inputs, incomeProjection, Tail(plans))

\* the results in insertion order, before the sort
collectStrategies(inputs) ==
  LET incomeProjection == projectIncome(inputs.career, 30, DEFAULTS.incomeGrowthRate)
  IN  (IF includePSLF(inputs)
       THEN <<calculatePSLFStrategy(inputs, incomeProjection, "PAYE")>>
       ELSE <<>>)
      \o idrStrategies(inputs, incomeProjection, plansToCompare(inputs))
      \o << calculateRefiStrategy(inputs, incomeProjection, 550, 10),
            calculateRefiStrategy(inputs, incomeProjection, 600, 7) >>

compareAllStrategies(inputs) == sortByNpv(collectStrategies(inputs))

\* r.strategyName.includes('Refinance'): the names the comparator builds with
\* refiName are the only strategy names that contain it
refinanceNames == {refiName(550, 10), refiName(600, 7)}

includesRefinance(strategyName) == strategyName \in refinanceNames

\* The last result whose name contains 'Refinance'.
findRefinanceLast(results) ==
  IF \E i \in 1..Len(results) : includesRefinance(results[i].strategyName)
  THEN results[CHOOSE i \in 1..Len(results) :
                 /\ includesRefinance(results[i].strategyName)
                 /\ \A j \in (i + 1)..Len(results) :
                      ~includesRefinance(results[j].strategyName)]
  ELSE undefined

\* results.find(r => r.strategyName.includes('Refinance'))
findRefinance(results) ==
  IF \E i \in 1..Len(results) : includesRefinance(results[i].strategyName)
  THEN results[CHOOSE i \in 1..Len(results) :
                 /\ includesRefinance(results[i].strategyName)
                 /\ \A j \in 1..(i - 1) : ~includesRefinance(results[j].strategyName)]
  ELSE undefined

highIncomeSpecialties ==
  {"orthopedic_surgery", "cardiology", "gastroenterology", "neurosurgery", "dermatology"}

\* the confidence after the PSLF-specific block
confidenceAfterPSLF(inputs, best, confidence) ==
  IF best.strategyName = "PSLF" /\ inputs.preferences.pslfConfidence < 70
  THEN "medium" ELSE confidence

\* the confidence after the close-call block
confidenceAfterCloseCall(npvDifference, secondBest, confidence) ==
  IF npvDifference < 10000 /\ secondBest # undefined THEN "low" ELSE confidence

\* a faulty variant of recommendationConfidence: the close-call block run before
\* the PSLF block
recommendationConfidenceSwapped(inputs, best, secondBest, npvDifference) ==
  confidenceAfterPSLF(inputs, best,
                      confidenceAfterCloseCall(npvDifference, secondBest, "high"))

\* the confidence generateRecommendation returns: the two blocks in the code's order
recommendationConfidence(inputs, best, secondBest, npvDifference) ==
  confidenceAfterCloseCall(npvDifference, secondBest,
                           confidenceAfterPSLF(inputs, best, "high"))

\* a faulty variant of alternativeOf: the second-best result whatever the gap
alternativeOfAlways(npvDifference, secondBest) == secondBest

\* alternativeStrategy: npvDifference < 25000 ? secondBest : undefined
alternativeOf(npvDifference, secondBest) ==
  IF npvDifference < 25000 THEN secondBest ELSE undefined

\* The reasoning list, one tag per sentence the code pushes (the sentences embed
\* formatted amounts; the tag names which sentence it is).
recommendationReasoning(inputs, dti, best, secondBest, npvDifference) ==
  << IF dti < 50 THEN "dti-low" ELSE IF dti > 150 THEN "dti-high" ELSE "dti-moderate" >>
  \o (IF best.strategyName = "PSLF"
      THEN (IF inputs.preferences.pslfConfidence < 70 THEN <<"pslf-confidence">> ELSE <<>>)
           \o (IF inputs.career.specialty \in highIncomeSpecialties
               THEN <<"high-income-specialty">> ELSE <<>>)
           \o <<"pslf-saves-vs-refi">>
      ELSE <<>>)
  \o (IF npvDifference < 10000 /\ secondBest # undefined THEN <<"close-call">> ELSE <<>>)
  \o (IF best.taxOnForgiveness > 50000 THEN <<"tax-bomb">> ELSE <<>>)

generateRecommendation(inputs, results) ==
  \* best = results[0] is undefined for an empty list, and best.strategyName throws
  IF Len(results) = 0 THEN TypeError
  ELSE
  LET specialty  == getSpecialty(inputs.career.specialty)
      dti        == getDebtToIncomeRatio(
                      inputs.loans.totalBalance,
                      IF inputs.career.expectedAttendingSalary # 0
                      THEN inputs.career.expectedAttendingSalary
                      ELSE specialty.medianAttendingSalary)
      best       == results[1]
      secondBest == IF Len(results) >= 2 THEN results[2] ELSE undefined
      npvDifference == IF secondBest # undefined THEN secondBest.npv - best.npv ELSE 0
      refiResult    == findRefinance(results)
      savingsVsRefi == IF refiResult # undefined THEN refiResult.npv - best.npv ELSE 0
  IN  [ primaryStrategy     |-> best,
        alternativeStrategy |-> alternativeOf(npvDifference, secondBest),
        confidence          |-> recommendationConfidence(inputs, best, secondBest, npvDifference),
        reasoning           |-> recommendationReasoning(inputs, dti, best, secondBest,
                                                        npvDifference),
        keyMetrics |-> [ debtToIncomeRatio  |-> dti,
                         totalSavingsVsRefi |-> savingsVsRefi,
                         forgivenessBenefit |-> best.forgivenessAmount - best.taxOnForgiveness ] ]

calculateTrainingRemaining(currentStage, typicalYears) ==
  CASE currentStage \in {"ms4", "pgy1"} -> typicalYears
    [] currentStage = "pgy2"     -> Max(0, typicalYears - 1)
    [] currentStage = "pgy3"     -> Max(0, typicalYears - 2)
    [] currentStage = "pgy4"     -> Max(0, typicalYears - 3)
    [] currentStage = "pgy5"     -> Max(0, typicalYears - 4)
    [] currentStage = "pgy6"     -> Max(0, typicalYears - 5)
    [] currentStage = "pgy7"     -> Max(0, typicalYears - 6)
    [] currentStage = "fellow"   -> 1
    [] currentStage = "attending" -> 0
    [] OTHER                     -> typicalYears

\* TRAINING_SALARIES[stage] || 65000
trainingSalaryOrDefault(stage) ==
  IF stage \in DOMAIN TRAINING_SALARIES /\ TRAINING_SALARIES[stage] # 0
  THEN TRAINING_SALARIES[stage]
  ELSE 65000

\* The inputs of runQuickAnalysis with the SAVE plan taken as available.
quickStartInputsSaveAvailable(quick) ==
  [ loans |-> [ totalBalance |-> quick.totalDebt, weightedInterestRate |-> 650,
                pslfQualifyingPayments |-> 0, idrQualifyingPayments |-> 0 ],
    personal |-> [ agi |-> trainingSalaryOrDefault(quick.currentStage),
                   spouseAgi |-> quick.spouseIncome,
                   filingStatus |-> IF quick.married THEN "mfj" ELSE "single",
                   familySize |-> IF quick.married THEN 2 ELSE 1,
                   state |-> "CA", pslfEligibleEmployer |-> quick.pslfEligible ],
    career |-> [ specialty |-> quick.specialty, currentStage |-> quick.currentStage,
                 trainingYearsRemaining |->
                   calculateTrainingRemaining(quick.currentStage,
                     getSpecialty(quick.specialty).typicalTrainingYears),
                 expectedAttendingSalary |-> 0 ],
    preferences |-> [ discountRate |-> DEFAULTS.discountRate,
                      pslfConfidence |-> DEFAULTS.pslfConfidence,
                      savePlanAvailable |-> TRUE ] ]

\* The UserInputs runQuickAnalysis builds from the quick-start form; an absent
\* spouseIncome is 0 (quick.spouseIncome || 0), expectedAttendingSalary is
\* undefined (0 here, as projectIncome tests it for truthiness).
quickStartInputs(quick) ==
  [ loans |-> [ totalBalance |-> quick.totalDebt, weightedInterestRate |-> 650,
                pslfQualifyingPayments |-> 0, idrQualifyingPayments |-> 0 ],
    personal |-> [ agi |-> trainingSalaryOrDefault(quick.currentStage),
                   spouseAgi |-> quick.spouseIncome,
                   filingStatus |-> IF quick.married THEN "mfj" ELSE "single",
                   familySize |-> IF quick.married THEN 2 ELSE 1,
                   state |-> "CA", pslfEligibleEmployer |-> quick.pslfEligible ],
    career |-> [ specialty |-> quick.specialty, currentStage |-> quick.currentStage,
                 trainingYearsRemaining |->
                   calculateTrainingRemaining(quick.currentStage,
                     getSpecialty(quick.specialty).typicalTrainingYears),
                 expectedAttendingSalary |-> 0 ],
    preferences |-> [ discountRate |-> DEFAULTS.discountRate,
                      pslfConfidence |-> DEFAULTS.pslfConfidence,
                      savePlanAvailable |-> DEFAULTS.savePlanAvailable ] ]

\* ------------------------------------------------------------------------
\* State
\* ------------------------------------------------------------------------

VARIABLES
  pc,              \* where the submit handler is: "start", "compared", "recommended"; "idle"
  inputs,          \* the UserInputs of the current run
  results,         \* the ranked list compareAllStrategies returned
  recommendation,  \* what generateRecommendation returned
  prevInputs,      \* the UserInputs of the run before a resubmission
  prevResults,     \* the ranked list of the run before a resubmission
  call,            \* a direct call of an exported function: its name and arguments
  ret,             \* what the call returned
  prev,            \* the call made before one argument was changed, with its result
  frame            \* the locals of a running calculateAggressivePayoff call

vars == <<pc, inputs, results, recommendation, prevInputs, prevResults, call, ret, prev, frame>>

\* ------------------------------------------------------------------------
\* Bounds and input domains
\* ------------------------------------------------------------------------

MaxBalanceSteps == 2
MaxFamilySize == 3
MaxYears == 3
MaxResults == 3
MaxLen == 4
MaxHorizon == 5
MaxTraining == 4

\* loan balances in cents: odd multiples of the step are not whole dollars, even
\* multiples are
BalanceStep == 70000 * 100 + 50
Balances == {k * BalanceStep : k \in 1..MaxBalanceSteps}

Confidences == {50, 75, 85}

UserInputsSet ==
  { [ loans |-> [ totalBalance |-> b, weightedInterestRate |-> 650,
                  pslfQualifyingPayments |-> pq, idrQualifyingPayments |-> iq ],
      personal |-> [ agi |-> 65000, spouseAgi |-> 0, filingStatus |-> "single",
                     familySize |-> 1, state |-> "NY", pslfEligibleEmployer |-> pe ],
      career |-> [ specialty |-> sp, currentStage |-> "pgy1",
                   trainingYearsRemaining |-> 3, expectedAttendingSalary |-> 0 ],
      preferences |-> [ discountRate |-> 500, pslfConfidence |-> c,
                        savePlanAvailable |-> sv ] ] :
      b \in Balances, pq \in {0, 120}, iq \in {0, 300}, pe \in BOOLEAN,
      sp \in {"family_medicine", "not_listed"}, c \in {50, 85}, sv \in BOOLEAN }

noCall == /\ call = undefined /\ ret = undefined /\ prev = undefined /\ frame = undefined

\* ------------------------------------------------------------------------
\* The submit handler (main.ts): compare, then recommend; a resubmission with
\* another PSLF confidence runs the comparison again
\* ------------------------------------------------------------------------

Init ==
  /\ pc = "start"
  /\ inputs \in UserInputsSet
  /\ results = <<>>
  /\ recommendation = undefined
  /\ prevInputs = undefined
  /\ prevResults = undefined
  /\ noCall

Compare ==
  /\ pc = "start"
  /\ results' = compareAllStrategies(inputs)
  /\ pc' = "compared"
  /\ UNCHANGED <<inputs, recommendation, prevInputs, prevResults, call, ret, prev, frame>>

Recommend ==
  /\ pc = "compared"
  /\ recommendation' = generateRecommendation(inputs, results)
  /\ pc' = "recommended"
  /\ UNCHANGED <<inputs, results, prevInputs, prevResults, call, ret, prev, frame>>

ChangeConfidence(c) ==
  /\ pc = "recommended"
  /\ prevInputs = undefined
  /\ c # inputs.preferences.pslfConfidence
  /\ prevInputs' = inputs
  /\ prevResults' = results
  /\ inputs' = [inputs EXCEPT !.preferences.pslfConfidence = c]
  /\ results' = compareAllStrategies(inputs')
  /\ recommendation' = undefined
  /\ pc' = "compared"
  /\ UNCHANGED <<call, ret, prev, frame>>

Next ==
  \/ Compare
  \/ Recommend
  \/ \E c \in Confidences : ChangeConfidence(c)

Spec == Init /\ [][Next]_vars

\* ------------------------------------------------------------------------
\* Properties of the comparison (specification Spec)
\* ------------------------------------------------------------------------

compared == pc \in {"compared", "recommended"}

\* C1: the list compareAllStrategies returns is sorted ascending by npv: at
\* every pair of adjacent positions the earlier npv is at most the later one.
C1_SortedByNpv ==
  compared => \A i \in 1..(Len(results) - 1) : results[i].npv <= results[i + 1].npv

\* a comparison whose sort moved a result
C1_Witness ==
  /\ pc = "compared"
  /\ Len(results) >= 5
  /\ results # collectStrategies(inputs)

strategyNames(rs) == {rs[i].strategyName : i \in 1..Len(rs)}

\* C2: the strategies returned are exactly PAYE, IBR_NEW and the two refinance
\* options, plus PSLF iff the employer is PSLF-eligible, plus SAVE iff the SAVE
\* plan is available; no name appears twice.
C2_StrategySet ==
  compared =>
    LET expected ==
          {"PAYE", "IBR_NEW", "Refinance (10yr @ 5.5%)", "Refinance (7yr @ 6.0%)"}
          \cup (IF inputs.personal.pslfEligibleEmployer THEN {"PSLF"} ELSE {})
          \cup (IF inputs.preferences.savePlanAvailable THEN {"SAVE"} ELSE {})
    IN  /\ strategyNames(results) = expected
        /\ Len(results) = Cardinality(expected)

\* a comparison without PSLF and with SAVE
C2_Witness ==
  /\ pc = "compared"
  /\ ~inputs.personal.pslfEligibleEmployer
  /\ inputs.preferences.savePlanAvailable
  /\ Len(results) = 5

inDocumentedRanges(i) ==
  /\ i.loans.pslfQualifyingPayments \in 0..120
  /\ i.loans.idrQualifyingPayments \in 0..300

\* C3: for inputs in the documented ranges every result's yearlyBreakdown is
\* non-empty and its first startingBalance equals loans.totalBalance (the
\* balance is in cents, startingBalance in dollars).
C3_BreakdownStartsAtBalance ==
  (compared /\ inDocumentedRanges(inputs)) =>
    \A i \in 1..Len(results) :
      /\ Len(results[i].yearlyBreakdown) > 0
      /\ results[i].yearlyBreakdown[1].startingBalance * 100 = inputs.loans.totalBalance

insertionRank(name) ==
  CASE name = "PSLF"    -> 1
    [] name = "SAVE"    -> 2
    [] name = "PAYE"    -> 3
    [] name = "IBR_NEW" -> 4
    [] name = "Refinance (10yr @ 5.5%)" -> 5
    [] name = "Refinance (7yr @ 6.0%)"  -> 6

\* C11: ties are broken by insertion order: two results with equal npv appear
\* in the order PSLF, SAVE, PAYE, IBR_NEW, Refinance 10yr, Refinance 7yr.
C11_TiesInInsertionOrder ==
  compared =>
    \A i, j \in 1..Len(results) :
      (i < j /\ results[i].npv = results[j].npv)
        => insertionRank(results[i].strategyName) < insertionRank(results[j].strategyName)

\* a comparison with a tie between PAYE and IBR_NEW at a positive npv, PAYE first
C11_Witness ==
  /\ pc = "compared"
  /\ \E i \in 1..(Len(results) - 1) :
       /\ results[i].strategyName = "PAYE"
       /\ results[i + 1].strategyName = "IBR_NEW"
       /\ results[i].npv = results[i + 1].npv
       /\ results[i].npv > 0

\* the payments the yearly breakdown of result r records, year by year
paymentsMadeOf(r) == [k \in 1..Len(r.yearlyBreakdown) |-> r.yearlyBreakdown[k].paymentsMade]

\* C18: the PSLF result always has taxOnForgiveness = 0, and its npv is
\* calculateNPV of its annual payment stream alone, with no tax term, whatever
\* balance remains to be forgiven at the end of the horizon.
C18_PslfNpvIsPaymentsOnly ==
  compared => \A i \in 1..Len(results) :
    results[i].strategyName = "PSLF" =>
      /\ results[i].taxOnForgiveness = 0
      /\ Len(results[i].yearlyBreakdown) = results[i].totalYears =>
           results[i].npv = calculateNPV(paymentsMadeOf(results[i]), 0, 0,
                                         inputs.preferences.discountRate)

\* a PSLF result with ten years of payments and a balance left to forgive
C18_Witness ==
  /\ compared
  /\ \E i \in 1..Len(results) :
       /\ results[i].strategyName = "PSLF"
       /\ Len(results[i].yearlyBreakdown) = 10
       /\ results[i].totalYears = 10
       /\ results[i].forgivenessAmount > 0
       /\ results[i].npv > 0

\* ------------------------------------------------------------------------
\* generateRecommendation called directly on a list of results
\* (specification SpecRec)
\* ------------------------------------------------------------------------

\* a StrategyResult with the fields generateRecommendation reads set from the
\* name and the npv
strategyResultOf(name, npv) ==
  [ strategyName      |-> name,
    totalPayments     |-> npv,
    forgivenessAmount |-> IF name = "PAYE" THEN 150000 ELSE 0,
    taxOnForgiveness  |-> IF name = "PAYE" THEN 60000 ELSE 0,
    npv               |-> npv,
    totalYears        |-> 10,
    monthlyPaymentRange |-> [min |-> 0, max |-> 0],
    yearlyBreakdown   |-> <<>>,
    risks             |-> <<>> ]

ResultPool ==
  { strategyResultOf(name, npv) :
      name \in {"PSLF", "PAYE", "Refinance (10yr @ 5.5%)"},
      npv \in {200000, 205000, 220000, 245000} }

\* the lists of at most MaxResults results from the pool, in any order
ResultLists ==
  UNION { [1..n -> ResultPool] : n \in 0..MaxResults }

RecInputsSet ==
  { i \in UserInputsSet :
      /\ i.loans.totalBalance = BalanceStep
      /\ i.loans.pslfQualifyingPayments = 0
      /\ i.loans.idrQualifyingPayments = 0
      /\ i.personal.pslfEligibleEmployer
      /\ i.preferences.savePlanAvailable }

InitRec ==
  /\ pc = "compared"
  /\ inputs \in RecInputsSet
  /\ results \in ResultLists
  /\ recommendation = undefined
  /\ prevInputs = undefined
  /\ prevResults = undefined
  /\ noCall

NextRec == Recommend

SpecRec == InitRec /\ [][NextRec]_vars

recommended == pc = "recommended"

\* C8: no engine entry point halts with an error; generateRecommendation
\* returns a recommendation for any list of results.
C8_NoEntryPointHalts ==
  recommended => recommendation # TypeError

npvGap(rs) == rs[2].npv - rs[1].npv

\* C9: the confidence is 'low' whenever a second-best result exists and its NPV
\* gap to the best is under 10000, even if the PSLF check set 'medium';
\* otherwise 'medium' when the best strategy is PSLF and pslfConfidence < 70%;
\* otherwise 'high'.
C9_ConfidenceOrder ==
  (recommended /\ Len(results) >= 1) =>
    recommendation.confidence =
      IF Len(results) >= 2 /\ npvGap(results) < 10000 THEN "low"
      ELSE IF results[1].strategyName = "PSLF" /\ inputs.preferences.pslfConfidence < 70
           THEN "medium"
           ELSE "high"

\* a close call behind a PSLF best with low PSLF confidence: 'low' overrides
C9_Witness ==
  /\ recommended
  /\ Len(results) >= 2
  /\ results[1].strategyName = "PSLF"
  /\ inputs.preferences.pslfConfidence < 70
  /\ npvGap(results) < 10000
  /\ recommendation.confidence = "low"

\* C10: primaryStrategy is the first result; alternativeStrategy is the second
\* result when there is one and its NPV gap to the first is under 25000, and is
\* absent otherwise.
C10_PrimaryAndAlternative ==
  (recommended /\ Len(results) >= 1) =>
    /\ recommendation.primaryStrategy = results[1]
    /\ recommendation.alternativeStrategy =
         IF Len(results) >= 2 /\ npvGap(results) < 25000 THEN results[2] ELSE undefined

\* a gap between the two thresholds: no close call, the alternative present
C10_Witness ==
  /\ recommended
  /\ Len(results) >= 2
  /\ npvGap(results) >= 10000
  /\ npvGap(results) < 25000
  /\ recommendation.alternativeStrategy = results[2]
  /\ recommendation.alternativeStrategy # recommendation.primaryStrategy

\* ------------------------------------------------------------------------
\* Direct calls of the exported calculators: a call, then the same call with
\* one argument changed
\* ------------------------------------------------------------------------

InitCall ==
  /\ pc = "idle"
  /\ inputs = undefined
  /\ results = <<>>
  /\ recommendation = undefined
  /\ prevInputs = undefined
  /\ prevResults = undefined
  /\ noCall

pipelineIdle == UNCHANGED <<pc, inputs, results, recommendation, prevInputs, prevResults, frame>>

\* the call has been repeated with one argument changed
varied == prev # undefined

\* --- estimateTaxOnForgiveness (specification SpecTax) ---

TaxAmounts == {0, 1, 1000, 100000}
TaxIncomes == {0, 100000, 300000}
TaxStates  == {"TX", "FL", "CA", "AZ", "AL", "NY", "ZZ"}
TaxFilingStatuses == {"single", "mfj"}

taxOf(c) ==
  estimateTaxOnForgiveness(c.forgivenAmount, c.agiInForgivenessYear, c.state, c.filingStatus)

CallEstimateTax(amount, agi, st, fs) ==
  /\ call = undefined
  /\ call' = [forgivenAmount |-> amount, agiInForgivenessYear |-> agi,
              state |-> st, filingStatus |-> fs]
  /\ ret' = taxOf(call')
  /\ UNCHANGED prev
  /\ pipelineIdle

VaryState(st) ==
  /\ call # undefined
  /\ prev = undefined
  /\ st # call.state
  /\ prev' = [call |-> call, ret |-> ret]
  /\ call' = [call EXCEPT !.state = st]
  /\ ret' = taxOf(call')
  /\ pipelineIdle

NextTax ==
  \/ \E amount \in TaxAmounts, agi \in TaxIncomes, st \in TaxStates,
        fs \in TaxFilingStatuses : CallEstimateTax(amount, agi, st, fs)
  \/ \E st \in TaxStates : VaryState(st)

SpecTax == InitCall /\ [][NextTax]_vars

tableRate(st) == STATE_TAX_RATES[st]

\* C5: for a forgiven amount > 0, with income and filing status fixed, the tax
\* for a state whose table rate is nonzero is strictly greater than the tax for a
\* state whose table rate is zero.
C5_NonzeroRateStateTaxedMore ==
  ( /\ varied
    /\ call.forgivenAmount > 0
    /\ call.state \in DOMAIN STATE_TAX_RATES
    /\ prev.call.state \in DOMAIN STATE_TAX_RATES
    /\ tableRate(call.state) # 0
    /\ tableRate(prev.call.state) = 0 )
  => ret > prev.ret

\* --- calculateIDRPayment (specification SpecIDRPayment) ---

PaymentPlans    == {"SAVE", "PAYE", "ICR"}
PaymentIncomes  == {0, 20000, 65000, 300000}
SpouseIncomes   == {0, 1, 100, 120, 50000}
FilingStatuses  == {"single", "mfj", "mfs"}

paymentOf(c) ==
  calculateIDRPayment(IDR_PLANS[c.plan], c.agi, c.familySize, c.spouseAgi, c.filingStatus)

CallIDRPayment(planName, agi, familySize, spouseAgi, fs) ==
  /\ call = undefined
  /\ call' = [plan |-> planName, agi |-> agi, familySize |-> familySize,
              spouseAgi |-> spouseAgi, filingStatus |-> fs]
  /\ ret' = paymentOf(call')
  /\ UNCHANGED prev
  /\ pipelineIdle

VarySpouseAgi(spouseAgi) ==
  /\ call # undefined
  /\ prev = undefined
  /\ spouseAgi # call.spouseAgi
  /\ prev' = [call |-> call, ret |-> ret]
  /\ call' = [call EXCEPT !.spouseAgi = spouseAgi]
  /\ ret' = paymentOf(call')
  /\ pipelineIdle

NextIDRPayment ==
  \/ \E planName \in PaymentPlans, agi \in PaymentIncomes, familySize \in 1..MaxFamilySize,
        spouseAgi \in SpouseIncomes, fs \in FilingStatuses :
       CallIDRPayment(planName, agi, familySize, spouseAgi, fs)
  \/ \E spouseAgi \in SpouseIncomes : VarySpouseAgi(spouseAgi)

SpecIDRPayment == InitCall /\ [][NextIDRPayment]_vars

\* the second call added spouse income to a call that had none
spouseIncomeAdded == varied /\ prev.call.spouseAgi = 0 /\ call.spouseAgi > 0

\* C6: with plan, agi and familySize fixed, under 'mfs' the payment is the same
\* for every spouseAgi, and under 'mfj' the payment for any spouseAgi > 0
\* differs from the payment for spouseAgi = 0.
C6_SpouseIncomeCounts ==
  /\ (varied /\ call.filingStatus = "mfs") => ret = prev.ret
  /\ (spouseIncomeAdded /\ call.filingStatus = "mfj") => ret # prev.ret

\* the borrower's income alone reaches the plan's poverty threshold
\* (agi >= povertyLine * povertyLineMultiplier)
aboveThreshold(c) ==
  c.agi * 100 >= getPovertyLine(c.familySize) * IDR_PLANS[c.plan].povertyLineMultiplier

\* the plan's share of the spouse's income is at least a dollar a month
\* (spouseAgi * discretionaryIncomePercent >= 12)
spouseShareCounts(c) ==
  c.spouseAgi * IDR_PLANS[c.plan].discretionaryIncomePercent >= 1200

\* C6, amended: under 'mfs' the payment is the same for every spouseAgi; under
\* 'mfj' the payment for spouseAgi > 0 is never less than the payment for
\* spouseAgi = 0, and is strictly greater whenever agi is at least the poverty
\* threshold and spouseAgi * discretionaryIncomePercent >= 12.
C6_SpouseIncomeCountsAmended ==
  /\ (varied /\ call.filingStatus = "mfs") => ret = prev.ret
  /\ (spouseIncomeAdded /\ call.filingStatus = "mfj") =>
       /\ ret >= prev.ret
       /\ (aboveThreshold(call) /\ spouseShareCounts(call)) => ret > prev.ret

\* spouse income added under 'mfj' that raised the payment
C6_Witness ==
  /\ spouseIncomeAdded
  /\ call.filingStatus = "mfj"
  /\ aboveThreshold(call)
  /\ spouseShareCounts(call)
  /\ ret > prev.ret

\* --- calculateNPV on a constant stream (specification SpecNPV) ---

StreamPayments == {1, 2, 5, 10, 11, 100, 10000, 36000}
DiscountRates  == {1, 100, 500, 1000, 2000}

npvOf(c) ==
  calculateNPV(c.annualPayments, c.forgivenessYear, c.taxOnForgiveness, c.discountRate)

CallNPV(p, n, r) ==
  /\ call = undefined
  /\ call' = [annualPayments |-> [year \in 1..n |-> p], forgivenessYear |-> 0,
              taxOnForgiveness |-> 0, discountRate |-> r]
  /\ ret' = npvOf(call')
  /\ UNCHANGED prev
  /\ pipelineIdle

VaryDiscountRate(r) ==
  /\ call # undefined
  /\ prev = undefined
  /\ r # call.discountRate
  /\ prev' = [call |-> call, ret |-> ret]
  /\ call' = [call EXCEPT !.discountRate = r]
  /\ ret' = npvOf(call')
  /\ pipelineIdle

NextNPV ==
  \/ \E p \in StreamPayments, n \in 1..MaxYears, r \in DiscountRates : CallNPV(p, n, r)
  \/ \E r \in DiscountRates : VaryDiscountRate(r)

SpecNPV == InitCall /\ [][NextNPV]_vars

called == call # undefined

undiscountedSum(c) == SumSeq(c.annualPayments)

\* C7: the NPV of a non-empty constant stream of a positive payment, at a
\* discount rate > 0, is strictly less than the undiscounted sum n * p.
C7_NpvBelowSum ==
  called => ret < undiscountedSum(call)

\* the first year's discount, p * r / (1 + r), is more than half a unit
firstDiscountAboveHalf(c) ==
  2 * c.annualPayments[1] * c.discountRate > 10000 + c.discountRate

\* C7, amended: for a whole-unit payment p the NPV is at most n * p, and is
\* strictly less than n * p whenever p * r / (1 + r) > 0.5.
C7_NpvBelowSumAmended ==
  called =>
    /\ ret <= undiscountedSum(call)
    /\ firstDiscountAboveHalf(call) => ret < undiscountedSum(call)

\* a stream of several years whose NPV is below the undiscounted sum
C7_Witness ==
  /\ called
  /\ Len(call.annualPayments) >= 2
  /\ firstDiscountAboveHalf(call)
  /\ ret > 0
  /\ ret < undiscountedSum(call)

\* --- projectLoanBalance called directly (specification SpecLoan) ---

\* balances in cents, rates in basis points, annual payments in dollars
\* (multiples of 12, so that annualPayment / 12 is a whole number of cents)
LoanBalances == {0, 120030, 240000, 1000000}
LoanRates    == {0, 650}
LoanPayments == {0, 600, 1200, 12000}
LoanPlans    == {"SAVE", "PAYE"}

loanStatesOf(c) ==
  projectLoanBalance(c.initialBalance, c.interestRate, c.annualPayments, IDR_PLANS[c.plan])

CallProjectLoanBalance(b, r, p, n, planName) ==
  /\ call = undefined
  /\ call' = [initialBalance |-> b, interestRate |-> r,
              annualPayments |-> [year \in 1..n |-> p], plan |-> planName]
  /\ ret' = loanStatesOf(call')
  /\ UNCHANGED prev
  /\ pipelineIdle

NextLoan ==
  \E b \in LoanBalances, r \in LoanRates, p \in LoanPayments, n \in 0..MaxYears,
     planName \in LoanPlans : CallProjectLoanBalance(b, r, p, n, planName)

SpecLoan == InitCall /\ [][NextLoan]_vars

\* the loop's running balance (cents, after Math.max(0, .)) at the end of year k
balanceAfter(c, k) ==
  loanYears(c.initialBalance, 0, c.interestRate, c.annualPayments, IDR_PLANS[c.plan],
            0, k - 1).balance

\* C12: no state follows a state whose balance reached zero: only the last
\* state of the returned sequence can have endingBalance 0.
C12_OnlyLastStateEndsAtZero ==
  called => \A k \in 1..Len(ret) : ret[k].endingBalance = 0 => k = Len(ret)

\* C12, amended: the sequence ends with the first year whose balance, before
\* rounding, is 0, and otherwise runs to the end of annualPayments; it has fewer
\* entries than annualPayments only when the balance reached zero; a state that
\* is not the last can report endingBalance 0 only for a balance under 0.50.
C12_StopsAtZeroBalance ==
  called =>
    /\ Len(ret) <= Len(call.annualPayments)
    /\ Len(call.annualPayments) > 0 => Len(ret) >= 1
    /\ \A k \in 1..(Len(ret) - 1) :
         /\ balanceAfter(call, k) > 0
         /\ ret[k].endingBalance = 0 => balanceAfter(call, k) < 50
    /\ Len(ret) < Len(call.annualPayments) =>
         /\ balanceAfter(call, Len(ret)) = 0
         /\ ret[Len(ret)].endingBalance = 0

\* a loan paid off in its second year, with a payment year left over
C12_Witness ==
  /\ called
  /\ Len(ret) = 2
  /\ Len(ret) < Len(call.annualPayments)
  /\ ret[1].endingBalance > 0
  /\ ret[2].endingBalance = 0

\* twelve months of balance + interest - payment, from balance b (cents)
plainMonth(b, c) ==
  b + MulDiv(b, c.interestRate, 120000) - RoundDiv(c.annualPayments[1] * 100, 12)

plainYear(c) ==
  LET b0 == c.initialBalance
      b1 == plainMonth(b0, c)
      b2 == plainMonth(b1, c)
      b3 == plainMonth(b2, c)
      b4 == plainMonth(b3, c)
      b5 == plainMonth(b4, c)
      b6 == plainMonth(b5, c)
      b7 == plainMonth(b6, c)
      b8 == plainMonth(b7, c)
      b9 == plainMonth(b8, c)
      b10 == plainMonth(b9, c)
      b11 == plainMonth(b10, c)
      b12 == plainMonth(b11, c)
  IN  <<b1, b2, b3, b4, b5, b6, b7, b8, b9, b10, b11, b12>>[12]

\* the first month's interest on the initial balance, and the monthly payment (cents)
firstInterest(c) == MulDiv(c.initialBalance, c.interestRate, 120000)
firstPayment(c)  == RoundDiv(c.annualPayments[1] * 100, 12)

\* C19: under a plan with interestSubsidy the balance never increases (every
\* state has endingBalance <= startingBalance), and a year whose monthly
\* payment is below the month's interest leaves the balance unchanged and adds
\* the shortfall to interestSubsidized; under a plan without subsidy
\* interestSubsidized is 0 in every state and the year is twelve months of
\* balance + interest - payment.
C19_SubsidyKeepsBalanceFlat ==
  called =>
    IF IDR_PLANS[call.plan].interestSubsidy
    THEN /\ \A k \in 1..Len(ret) : ret[k].endingBalance <= ret[k].startingBalance
         /\ (Len(ret) >= 1 /\ firstPayment(call) < firstInterest(call)) =>
              /\ ret[1].endingBalance = ret[1].startingBalance
              /\ ret[1].interestSubsidized
                   = RoundDiv(12 * (firstInterest(call) - firstPayment(call)), 100)
    ELSE /\ \A k \in 1..Len(ret) : ret[k].interestSubsidized = 0
         /\ Len(ret) >= 1 =>
              ret[1].endingBalance = RoundDiv(Max(0, plainYear(call)), 100)

\* a subsidised plan, a positive payment below the interest, two years flat
C19_Witness ==
  /\ called
  /\ IDR_PLANS[call.plan].interestSubsidy
  /\ Len(ret) >= 2
  /\ ret[2].paymentsMade > 0
  /\ ret[2].interestSubsidized > 0
  /\ ret[2].endingBalance = ret[2].startingBalance
  /\ ret[2].endingBalance > 0

\* --- runQuickAnalysis (specification SpecQuick) ---

QuickStartInputsSet ==
  [ totalDebt : Balances,
    specialty : {"family_medicine", "internal_medicine", "not_listed"},
    pslfEligible : BOOLEAN,
    currentStage : {"ms4", "pgy1", "pgy3", "attending"},
    married : BOOLEAN,
    spouseIncome : {0, 80000} ]

\* runQuickAnalysis(quick): the inputs are built, compared and a recommendation
\* is made in one call, which returns { results, recommendation }
RunQuickAnalysis(quick) ==
  /\ pc = "idle"
  /\ call = undefined
  /\ call' = quick
  /\ inputs' = quickStartInputs(quick)
  /\ results' = compareAllStrategies(inputs')
  /\ recommendation' = generateRecommendation(inputs', results')
  /\ ret' = [results |-> results', recommendation |-> recommendation']
  /\ pc' = "recommended"
  /\ UNCHANGED <<prev, prevInputs, prevResults, frame>>

NextQuick == \E quick \in QuickStartInputsSet : RunQuickAnalysis(quick)

SpecQuick == InitCall /\ [][NextQuick]_vars

\* C13: runQuickAnalysis returns what compareAllStrategies followed by
\* generateRecommendation return on inputs built with the fixed defaults
\* (rate 6.5%, state CA, discountRate 5%, pslfConfidence 0.85, SAVE not
\* available, no credited payments, pslfEligibleEmployer = quick.pslfEligible,
\* mfj with family size 2 when married, else single with family size 1); its
\* results never contain SAVE and contain PSLF iff quick.pslfEligible.
C13_QuickAnalysisDefaults ==
  called =>
    /\ inputs.loans.totalBalance = call.totalDebt
    /\ inputs.loans.weightedInterestRate = 650
    /\ inputs.loans.pslfQualifyingPayments = 0
    /\ inputs.loans.idrQualifyingPayments = 0
    /\ inputs.personal.state = "CA"
    /\ inputs.personal.pslfEligibleEmployer = call.pslfEligible
    /\ inputs.personal.filingStatus = (IF call.married THEN "mfj" ELSE "single")
    /\ inputs.personal.familySize = (IF call.married THEN 2 ELSE 1)
    /\ inputs.preferences.discountRate = 500
    /\ inputs.preferences.pslfConfidence = 85
    /\ inputs.preferences.savePlanAvailable = FALSE
    /\ ret.results = compareAllStrategies(inputs)
    /\ ret.recommendation = generateRecommendation(inputs, ret.results)
    /\ "SAVE" \notin strategyNames(ret.results)
    /\ ("PSLF" \in strategyNames(ret.results)) <=> call.pslfEligible

\* a married, PSLF-eligible quick start whose results include PSLF and an IDR plan
C13_Witness ==
  /\ called
  /\ call \in QuickStartInputsSet
  /\ call.married
  /\ call.pslfEligible
  /\ "PSLF" \in strategyNames(ret.results)
  /\ "PAYE" \in strategyNames(ret.results)
  /\ ret.recommendation # undefined

\* --- sanitizeNumericValue (specification SpecSanitize) ---

Characters == WhiteSpace \cup Digits \cup {"-", ",", "a"}

Strings == UNION {[1..n -> Characters] : n \in 0..MaxLen}

CallSanitize(value) ==
  /\ call = undefined
  /\ call' = [value |-> value]
  /\ ret' = sanitizeNumericValue(value)
  /\ UNCHANGED prev
  /\ pipelineIdle

NextSanitize == \E value \in Strings : CallSanitize(value)

SpecSanitize == InitCall /\ [][NextSanitize]_vars

\* optional surrounding white space, an optional leading minus sign, then
\* digits and commas
formattedNumber(s) ==
  \E i \in 1..(Len(s) + 1), j \in 0..Len(s) :
    /\ i <= j + 1
    /\ \A k \in 1..(i - 1) : s[k] \in WhiteSpace
    /\ \A k \in (j + 1)..Len(s) : s[k] \in WhiteSpace
    /\ \A k \in i..j : s[k] \in Digits \cup {","} \/ (k = i /\ s[k] = "-")

digitsOf(s) == SelectSeq(s, LAMBDA ch : ch \in Digits)

\* the number a formatted string denotes: its digits, negated under a minus sign
denotedNumber(s) ==
  IF \E k \in 1..Len(s) : s[k] = "-"
  THEN 0 - decimalValue(digitsOf(s))
  ELSE decimalValue(digitsOf(s))

\* the first character that is neither white space nor a comma is a letter
startsWithLetter(s) ==
  \E i \in 1..Len(s) :
    /\ s[i] = "a"
    /\ \A k \in 1..(i - 1) : s[k] \in WhiteSpace \cup {","}

\* C14: for a string of optional surrounding white space, an optional leading
\* minus sign, digits and comma separators, sanitizeNumericValue returns the
\* number denoted once commas and surrounding white space are removed (never
\* the value cut at the first comma); it returns 0 for the empty string,
\* white-space-only strings and strings with no number to parse.
C14_SanitizedValue ==
  called =>
    /\ (formattedNumber(call.value) /\ digitsOf(call.value) # <<>>) =>
         ret = denotedNumber(call.value)
    /\ (\A k \in 1..Len(call.value) : call.value[k] \in WhiteSpace) => ret = 0
    /\ digitsOf(call.value) = <<>> => ret = 0
    /\ startsWithLetter(call.value) => ret = 0

\* a negative number with a comma after its first digit
C14_Witness ==
  /\ called
  /\ call.value = <<"-", "1", ",", "5">>
  /\ ret = 0 - 15

\* --- calculateIDRPayment for a growing family (specification SpecFamilySize) ---

\* the same call again for a larger family
VaryFamilySize(familySize) ==
  /\ call # undefined
  /\ prev = undefined
  /\ familySize > call.familySize
  /\ prev' = [call |-> call, ret |-> ret]
  /\ call' = [call EXCEPT !.familySize = familySize]
  /\ ret' = paymentOf(call')
  /\ pipelineIdle

NextFamilySize ==
  \/ \E planName \in PaymentPlans, agi \in PaymentIncomes, familySize \in 1..MaxFamilySize,
        spouseAgi \in SpouseIncomes, fs \in FilingStatuses :
       CallIDRPayment(planName, agi, familySize, spouseAgi, fs)
  \/ \E familySize \in 1..(MaxFamilySize + 1) : VaryFamilySize(familySize)

SpecFamilySize == InitCall /\ [][NextFamilySize]_vars

\* C15: with plan, income, spouse income and filing status fixed,
\* calculateIDRPayment is non-increasing in familySize: for 1 <= a <= b the
\* payment for family size b is at most the payment for family size a.
C15_PaymentNonIncreasingInFamilySize ==
  (varied /\ prev.call.familySize >= 1 /\ prev.call.familySize <= call.familySize)
    => ret <= prev.ret

\* a larger family that pays strictly less
C15_Witness ==
  /\ varied
  /\ prev.call.familySize < call.familySize
  /\ ret > 0
  /\ ret < prev.ret

\* --- the recommendation for compared and for given lists (specification SpecSavings) ---

\* the submit handler, or generateRecommendation called on a given list
InitSavings == Init \/ InitRec

NextSavings ==
  \/ Compare
  \/ Recommend

SpecSavings == InitSavings /\ [][NextSavings]_vars

refinancePositions(rs) == {i \in 1..Len(rs) : includesRefinance(rs[i].strategyName)}

sortedByNpv(rs) == \A i \in 1..(Len(rs) - 1) : rs[i].npv <= rs[i + 1].npv

\* C16: keyMetrics.totalSavingsVsRefi is refiResult.npv - best.npv for the
\* first result in the list whose name contains 'Refinance', and 0 when the
\* list has none; for a list sorted by npv, as compareAllStrategies returns,
\* it is the lowest refinance npv minus the best npv and is never negative.
C16_SavingsVsRefi ==
  (recommended /\ recommendation # TypeError) =>
    LET savings == recommendation.keyMetrics.totalSavingsVsRefi
        refis   == refinancePositions(results)
    IN  /\ refis = {} => savings = 0
        /\ \A i \in refis :
             (\A j \in refis : i <= j) => savings = results[i].npv - results[1].npv
        /\ (sortedByNpv(results) /\ refis # {}) =>
             /\ savings >= 0
             /\ \A i \in refis : savings <= results[i].npv - results[1].npv
             /\ \E i \in refis : \A k \in 1..Len(results) :
                  savings >= results[i].npv - results[k].npv

\* a compared list led by PSLF, with both refinance options behind it
C16_Witness ==
  /\ recommended
  /\ results = compareAllStrategies(inputs)
  /\ results[1].strategyName = "PSLF"
  /\ refinanceNames \subseteq strategyNames(results)
  /\ recommendation.keyMetrics.totalSavingsVsRefi > 0

\* --- compareFilingStatus (specification SpecFiling) ---

BorrowerIncomes == {0, 70000, 300000}
FilingSpouseIncomes == {0, 70000, 200000, 300000}
FilingPlans     == {"SAVE", "PAYE"}
FilingBalances  == {5000000, 30000000}

filingComparisonOf(c) ==
  compareFilingStatus(c.borrowerAgi, c.spouseAgi, c.familySize, IDR_PLANS[c.plan],
                      c.loanBalance, c.interestRate)

CallCompareFilingStatus(borrowerAgi, spouseAgi, familySize, planName, loanBalance) ==
  /\ call = undefined
  /\ call' = [borrowerAgi |-> borrowerAgi, spouseAgi |-> spouseAgi,
              familySize |-> familySize, plan |-> planName,
              loanBalance |-> loanBalance, interestRate |-> 650]
  /\ ret' = filingComparisonOf(call')
  /\ UNCHANGED prev
  /\ pipelineIdle

NextFiling ==
  \E borrowerAgi \in BorrowerIncomes, spouseAgi \in FilingSpouseIncomes,
     familySize \in 1..MaxFamilySize, planName \in FilingPlans,
     loanBalance \in FilingBalances :
    CallCompareFilingStatus(borrowerAgi, spouseAgi, familySize, planName, loanBalance)

SpecFiling == InitCall /\ [][NextFiling]_vars

\* C17: compareFilingStatus recommends 'mfs' exactly when mfs.netAnnualCost <
\* mfj.netAnnualCost and 'mfj' otherwise (ties go to mfj); annualSavings is the
\* absolute difference of the two net annual costs, so it is >= 0; and for
\* every spouseAgi >= 0, mfs.loanPayment <= mfj.loanPayment.
C17_FilingRecommendation ==
  called =>
    /\ ret.recommendation \in {"mfj", "mfs"}
    /\ ret.recommendation = "mfs" <=> ret.mfs.netAnnualCost < ret.mfj.netAnnualCost
    /\ ret.annualSavings >= 0
    /\ ret.annualSavings \in {ret.mfj.netAnnualCost - ret.mfs.netAnnualCost,
                              ret.mfs.netAnnualCost - ret.mfj.netAnnualCost}
    /\ ret.mfs.loanPayment <= ret.mfj.loanPayment

\* a couple for whom filing separately is cheaper and lowers the loan payment
C17_Witness ==
  /\ called
  /\ call.spouseAgi > 0
  /\ ret.recommendation = "mfs"
  /\ ret.annualSavings > 0
  /\ ret.mfs.loanPayment < ret.mfj.loanPayment

\* a couple whose two net annual costs are equal and positive
C17_TieWitness ==
  /\ called
  /\ ret.mfj.netAnnualCost = ret.mfs.netAnnualCost
  /\ ret.mfj.netAnnualCost > 0

\* --- calculateFederalTax (specification SpecFederalTax) ---

TaxableIncomes ==
  {0 - 5000, 0, 1, 11600, 11605, 23200, 47150, 50000, 94300, 100525, 150000,
   191950, 243725, 250000, 365600, 400000, 609350, 700000, 731200, 800000}

federalTaxOf(c) == calculateFederalTax(c.taxableIncome, c.filingStatus)

CallFederalTax(taxableIncome, fs) ==
  /\ call = undefined
  /\ call' = [taxableIncome |-> taxableIncome, filingStatus |-> fs]
  /\ ret' = federalTaxOf(call')
  /\ UNCHANGED prev
  /\ pipelineIdle

\* the same call again for a higher income
VaryTaxableIncome(taxableIncome) ==
  /\ call # undefined
  /\ prev = undefined
  /\ taxableIncome > call.taxableIncome
  /\ prev' = [call |-> call, ret |-> ret]
  /\ call' = [call EXCEPT !.taxableIncome = taxableIncome]
  /\ ret' = federalTaxOf(call')
  /\ pipelineIdle

NextFederalTax ==
  \/ \E taxableIncome \in TaxableIncomes, fs \in FilingStatuses :
       CallFederalTax(taxableIncome, fs)
  \/ \E taxableIncome \in TaxableIncomes : VaryTaxableIncome(taxableIncome)

SpecFederalTax == InitCall /\ [][NextFederalTax]_vars

\* the part of the income lying in bracket i: between its threshold and the next
incomeInBracket(brackets, i, income) ==
  LET upper == IF i < Len(brackets) THEN Min(income, brackets[i + 1][1]) ELSE income
  IN  Max(0, upper - brackets[i][1])

\* marginal taxation, in cents: each bracket's rate on the income inside it
marginalTax(brackets, income) ==
  SumSeq([i \in 1..Len(brackets) |-> incomeInBracket(brackets, i, income) * brackets[i][2]])

\* C20: calculateFederalTax is progressive marginal taxation for each filing
\* status: for income >= 0 it is the rounded sum, over the brackets of the
\* status's table, of rate times the part of the income between the bracket's
\* threshold and the next; it is 0 for income <= 0 and non-decreasing in income.
C20_ProgressiveTax ==
  /\ called =>
       /\ call.taxableIncome >= 0 =>
            ret = RoundDiv(marginalTax(getBrackets(call.filingStatus), call.taxableIncome), 100)
       /\ call.taxableIncome <= 0 => ret = 0
  /\ (varied /\ prev.call.taxableIncome <= call.taxableIncome) => prev.ret <= ret

\* an income taxed in at least three brackets, above a lower income's tax
C20_Witness ==
  /\ varied
  /\ prev.call.taxableIncome > 0
  /\ call.taxableIncome > getBrackets(call.filingStatus)[3][1]
  /\ ret > prev.ret
  /\ prev.ret > 0

\* --- projectIncome (specification SpecIncome) ---

CareerSet ==
  [ specialty : {"family_medicine", "not_listed"},
    currentStage : {"ms4", "pgy1", "pgy6", "fellow"},
    trainingYearsRemaining : 0..MaxTraining,
    expectedAttendingSalary : {0, 400000} ]

CallProjectIncome(career, years) ==
  /\ call = undefined
  /\ call' = [career |-> career, years |-> years]
  /\ ret' = projectIncome(career, years, DEFAULTS.incomeGrowthRate)
  /\ UNCHANGED prev
  /\ pipelineIdle

NextIncome ==
  \E career \in CareerSet, years \in 0..MaxHorizon : CallProjectIncome(career, years)

SpecIncome == InitCall /\ [][NextIncome]_vars

\* the stage k years after currentStage: one stage per year, stopping at 'fellow';
\* a currentStage outside the ordering counts as 'pgy1'
stageAfter(currentStage, k) ==
  LET start == IF \E i \in 1..Len(stages) : stages[i] = currentStage
               THEN CHOOSE i \in 1..Len(stages) : stages[i] = currentStage
               ELSE 1
  IN  IF start + k >= Len(stages) THEN "fellow" ELSE stages[start + k]

attendingBase(career) ==
  IF career.expectedAttendingSalary # 0 THEN career.expectedAttendingSalary
  ELSE SPECIALTIES[IF career.specialty \in DOMAIN SPECIALTIES
                   THEN career.specialty ELSE "other"].medianAttendingSalary

\* C21: projectIncome returns exactly `years` entries with year = index
\* 0..years-1; the first min(trainingYearsRemaining, years) entries are the
\* training stages advancing one per year from currentStage, clamped at
\* 'fellow'; every later entry is 'attending', so no training stage follows an
\* attending entry; the first attending entry's income is the attending base
\* salary (override or specialty median) without growth.
C21_IncomeProjectionShape ==
  called =>
    LET training == call.career.trainingYearsRemaining
    IN  /\ Len(ret) = call.years
        /\ \A k \in 1..Len(ret) :
             /\ ret[k].year = k - 1
             /\ k <= training => ret[k].stage = stageAfter(call.career.currentStage, k - 1)
             /\ k > training => ret[k].stage = "attending"
             /\ \A j \in 1..(k - 1) : ret[j].stage = "attending" => ret[k].stage = "attending"
        /\ training < call.years => ret[training + 1].income = attendingBase(call.career)

\* training that reaches 'fellow' before the attending years begin
C21_Witness ==
  /\ called
  /\ call.career.trainingYearsRemaining >= 3
  /\ Len(ret) > call.career.trainingYearsRemaining + 1
  /\ ret[1].stage = "pgy6"
  /\ ret[3].stage = "fellow"
  /\ ret[Len(ret)].stage = "attending"
  /\ ret[Len(ret)].income > ret[call.career.trainingYearsRemaining + 1].income

\* ------------------------------------------------------------------------
\* calculateAggressivePayoff, run step by step (specification SpecAggressive)
\* Balances and running totals in cents, rates in basis points; the rows of
\* yearlyBreakdown and the returned totals in dollars (Math.round).
\* ------------------------------------------------------------------------

\* Training payments of the interest plus a hundredth of the loan.
monthlyTrainingPaymentWithPrincipal(params) ==
  MulDiv(params.loanBalance, params.interestRate, 120000) + params.loanBalance \div 100

\* monthlyInterestOnly = (loanBalance * interestRate) / 12
monthlyTrainingPayment(params) == MulDiv(params.loanBalance, params.interestRate, 120000)

\* Math.max(0, attendingSalary * (1 - 0.30) - livingExpenses) / 12
monthlyAggressivePayment(params) ==
  RoundDiv(Max(0, params.attendingSalary * 70 - params.livingExpenses * 100), 12)

\* The loop bounds with those of the first two phases exchanged.
phaseLimitSwapped(phase, params) ==
  CASE phase = "training"   -> params.aggressiveYears
    [] phase = "aggressive" -> params.trainingYearsRemaining
    [] phase = "standard"   -> 10

\* the bound of the phase's outer loop
phaseLimit(phase, params) ==
  CASE phase = "training"   -> params.trainingYearsRemaining
    [] phase = "aggressive" -> params.aggressiveYears
    [] phase = "standard"   -> 10

\* the monthly amount the phase pays, before the cap at balance + interest
phasePayment(f, params) ==
  CASE f.phase = "training"   -> monthlyTrainingPayment(params)
    [] f.phase = "aggressive" -> monthlyAggressivePayment(params)
    [] f.phase = "standard"   -> f.monthlyStandard * 100

\* The month's payment without the cap.
monthPaymentUncapped(amount, balance, monthInterest) == amount

\* Math.min(amount, balance + monthInterest)
monthPayment(amount, balance, monthInterest) == Min(amount, balance + monthInterest)

\* the body of a month loop, on the locals f
payoffMonth(f, params) ==
  LET monthInterest == MulDiv(f.balance, params.interestRate, 120000)
      payment       == monthPayment(phasePayment(f, params), f.balance, monthInterest)
      principal     == IF f.phase = "training" THEN Max(0, payment - monthInterest)
                       ELSE payment - monthInterest
      balance       == IF f.phase = "training" THEN f.balance + monthInterest - payment
                       ELSE Max(0, f.balance + monthInterest - payment)
  IN  [f EXCEPT !.balance = balance,
                !.yearPayment = @ + payment,
                !.yearInterest = @ + monthInterest,
                !.yearPrincipal = @ + principal,
                !.totalPayments = @ + payment,
                !.totalInterest = @ + monthInterest,
                !.months = @ + 1,
                !.m = @ + 1,
                !.payment = payment,
                !.monthInterest = monthInterest]

\* the row pushed at the end of a year
payoffRow(f) ==
  [ year          |-> f.year,
    payment       |-> RoundDiv(f.yearPayment, 100),
    principal     |-> RoundDiv(f.yearPrincipal, 100),
    interest      |-> RoundDiv(f.yearInterest, 100),
    endingBalance |-> RoundDiv(Max(0, f.balance), 100),
    phase         |-> f.phase ]

\* yearlyBreakdown.find(y => y.phase === 'aggressive' && y.endingBalance > 0)?.endingBalance || 0
balanceAfterAggressive(rows) ==
  LET found == {i \in 1..Len(rows) : rows[i].phase = "aggressive" /\ rows[i].endingBalance > 0}
  IN  IF found = {} THEN 0
      ELSE rows[CHOOSE i \in found : \A j \in found : i <= j].endingBalance

\* the value returned, from the locals at the end of the phases
payoffResult(f, params) ==
  LET annualPayments == [i \in 1..Len(f.yearlyBreakdown) |-> f.yearlyBreakdown[i].payment]
      remaining      == balanceAfterAggressive(f.yearlyBreakdown)
  IN  [ totalPayments  |-> RoundDiv(f.totalPayments, 100),
        totalInterest  |-> RoundDiv(f.totalInterest, 100),
        yearsToPayoff  |-> f.year,
        monthsToPayoff |-> f.months,
        npv            |-> calculateNPV(annualPayments, 0, 0, params.discountRate),
        yearlyBreakdown |-> f.yearlyBreakdown,
        monthlyPaymentDuringTraining |-> RoundDiv(monthlyTrainingPayment(params), 100),
        monthlyPaymentAggressive     |-> RoundDiv(monthlyAggressivePayment(params), 100),
        monthlyPaymentStandard       |->
          IF remaining > 0
          THEN calculateAmortizationPayment(remaining * 100, params.interestRate, 10)
          ELSE 0 ]

AggressivePayoffParamsSet ==
  [ loanBalance : {7000050, 12000000, 24000000},
    interestRate : {0, 650},
    trainingYearsRemaining : 0..2,
    attendingSalary : {300000},
    livingExpenses : {90000, 186000, 210000},
    aggressiveYears : 0..2,
    discountRate : {500} ]

framePipelineIdle ==
  UNCHANGED <<pc, inputs, results, recommendation, prevInputs, prevResults, prev>>

\* the call: the locals as they are before the first loop
CallAggressivePayoff(params) ==
  /\ call = undefined
  /\ call' = params
  /\ frame' = [ pc |-> "loop", phase |-> "training", y |-> 0, m |-> 0,
                balance |-> params.loanBalance, totalPayments |-> 0, totalInterest |-> 0,
                year |-> 0, months |-> 0,
                yearPayment |-> 0, yearInterest |-> 0, yearPrincipal |-> 0,
                payment |-> 0, monthInterest |-> 0,
                monthlyStandard |-> 0, yearlyBreakdown |-> <<>> ]
  /\ UNCHANGED ret
  /\ framePipelineIdle

running == call # undefined /\ frame # undefined

\* y < limit && balance > 0
loopContinues == frame.y < phaseLimit(frame.phase, call) /\ frame.balance > 0

\* an outer loop's test succeeds: a year begins
StartYear ==
  /\ running
  /\ frame.pc = "loop"
  /\ loopContinues
  /\ frame' = [frame EXCEPT !.pc = "months", !.year = @ + 1, !.m = 0,
                            !.yearPayment = 0, !.yearInterest = 0, !.yearPrincipal = 0]
  /\ UNCHANGED <<call, ret>>
  /\ framePipelineIdle

\* m < 12 && balance > 0: one month of the year
PayoffMonth ==
  /\ running
  /\ frame.pc = "months"
  /\ frame.m < 12 /\ frame.balance > 0
  /\ frame' = payoffMonth(frame, call)
  /\ UNCHANGED <<call, ret>>
  /\ framePipelineIdle

\* the month loop is left: the year's row is pushed
EndYear ==
  /\ running
  /\ frame.pc = "months"
  /\ ~(frame.m < 12 /\ frame.balance > 0)
  /\ frame' = [frame EXCEPT !.pc = "loop", !.y = @ + 1,
                            !.yearlyBreakdown = Append(@, payoffRow(frame))]
  /\ UNCHANGED <<call, ret>>
  /\ framePipelineIdle

\* an outer loop's test fails: on to the next phase, or to the return; the
\* standard phase is entered only with a balance left, and fixes its payment
NextPhase ==
  /\ running
  /\ frame.pc = "loop"
  /\ ~loopContinues
  /\ frame' =
       CASE frame.phase = "training" ->
              [frame EXCEPT !.phase = "aggressive", !.y = 0]
         [] frame.phase = "aggressive" /\ frame.balance > 0 ->
              [frame EXCEPT !.phase = "standard", !.y = 0,
                            !.monthlyStandard =
                               calculateAmortizationPayment(frame.balance, call.interestRate, 10)]
         [] OTHER ->
              [frame EXCEPT !.pc = "return"]
  /\ UNCHANGED <<call, ret>>
  /\ framePipelineIdle

ReturnPayoff ==
  /\ running
  /\ frame.pc = "return"
  /\ ret' = payoffResult(frame, call)
  /\ frame' = [frame EXCEPT !.pc = "done"]
  /\ UNCHANGED call
  /\ framePipelineIdle

NextAggressive ==
  \/ \E params \in AggressivePayoffParamsSet : CallAggressivePayoff(params)
  \/ StartYear
  \/ PayoffMonth
  \/ EndYear
  \/ NextPhase
  \/ ReturnPayoff

SpecAggressive == InitCall /\ [][NextAggressive]_vars

returned == running /\ frame.pc = "done"

phaseRank(phase) ==
  CASE phase = "training" -> 1 [] phase = "aggressive" -> 2 [] phase = "standard" -> 3

rowsOfPhase(rows, phase) == {k \in 1..Len(rows) : rows[k].phase = phase}

\* C22: the rows of yearlyBreakdown are numbered 1..n; their phases are ordered
\* training, aggressive, standard, never interleaved, with at most
\* trainingYearsRemaining training rows, at most aggressiveYears aggressive rows
\* and at most 10 standard rows; yearsToPayoff is n and monthsToPayoff is the
\* number of months simulated over all phases, at most 12 n.
C22_BreakdownShape ==
  returned =>
    LET rows == ret.yearlyBreakdown
        n    == Len(rows)
    IN  /\ \A k \in 1..n : rows[k].year = k
        /\ \A i, j \in 1..n : i < j => phaseRank(rows[i].phase) <= phaseRank(rows[j].phase)
        /\ Cardinality(rowsOfPhase(rows, "training")) <= call.trainingYearsRemaining
        /\ Cardinality(rowsOfPhase(rows, "aggressive")) <= call.aggressiveYears
        /\ Cardinality(rowsOfPhase(rows, "standard")) <= 10
        /\ ret.yearsToPayoff = n
        /\ ret.monthsToPayoff = frame.months
        /\ ret.monthsToPayoff <= 12 * n
        /\ n >= 1 => ret.monthsToPayoff > 12 * (n - 1)

\* a payoff that went through two years of each of the first two phases and
\* then the standard phase
C22_Witness ==
  /\ returned
  /\ Cardinality(rowsOfPhase(ret.yearlyBreakdown, "training")) = 2
  /\ Cardinality(rowsOfPhase(ret.yearlyBreakdown, "aggressive")) = 2
  /\ rowsOfPhase(ret.yearlyBreakdown, "standard") # {}
  /\ ret.yearsToPayoff > 4
  /\ ret.monthsToPayoff > 48

\* C23: in the training phase every monthly payment is the interest on the
\* full initial balance, so the balance is unchanged: every training row has
\* principal 0, payment equal to interest, and endingBalance equal to the
\* initial loanBalance.
C23_TrainingRowsKeepBalance ==
  returned => \A k \in rowsOfPhase(ret.yearlyBreakdown, "training") :
    /\ ret.yearlyBreakdown[k].principal = 0
    /\ ret.yearlyBreakdown[k].payment = ret.yearlyBreakdown[k].interest
    /\ ret.yearlyBreakdown[k].endingBalance * 100 = call.loanBalance

\* C23, amended: through the training phase the balance stays the initial
\* loanBalance and every monthly payment is that month's interest; every
\* training row has principal 0, payment equal to interest, and endingBalance
\* equal to Math.round(loanBalance).
C23_TrainingRowsKeepRoundedBalance ==
  /\ (running /\ frame.phase = "training") =>
       /\ frame.balance = call.loanBalance
       /\ frame.payment = frame.monthInterest
       /\ frame.yearPrincipal = 0
  /\ returned => \A k \in rowsOfPhase(ret.yearlyBreakdown, "training") :
       /\ ret.yearlyBreakdown[k].principal = 0
       /\ ret.yearlyBreakdown[k].payment = ret.yearlyBreakdown[k].interest
       /\ ret.yearlyBreakdown[k].endingBalance = RoundDiv(call.loanBalance, 100)

\* two training years of interest-only payments on a balance with cents
C23_Witness ==
  /\ returned
  /\ call.loanBalance % 100 # 0
  /\ Cardinality(rowsOfPhase(ret.yearlyBreakdown, "training")) = 2
  /\ ret.yearlyBreakdown[2].payment > 0
  /\ ret.yearlyBreakdown[2].endingBalance = RoundDiv(call.loanBalance, 100)

\* C24: monthlyPaymentStandard is the 10-year amortized payment on the
\* balance left after the aggressive phase, the monthly payment the standard
\* phase used, and is 0 when no balance is left after the aggressive phase.
C24_StandardPaymentReported ==
  returned => ret.monthlyPaymentStandard = frame.monthlyStandard

\* C28: after every simulated month and at return, the remaining balance is
\* loanBalance + interest accrued so far - payments made so far; the balance
\* is never negative, so no monthly payment exceeds balance plus that month's
\* interest; the returned totalPayments and totalInterest are these sums rounded.
C28_MoneyConserved ==
  /\ running =>
       /\ frame.balance = call.loanBalance + frame.totalInterest - frame.totalPayments
       /\ frame.balance >= 0
       /\ frame.payment >= 0
  /\ returned =>
       /\ ret.totalPayments = RoundDiv(frame.totalPayments, 100)
       /\ ret.totalInterest = RoundDiv(frame.totalInterest, 100)

\* a loan paid off by a last payment smaller than the monthly amount
C28_Witness ==
  /\ returned
  /\ frame.balance = 0
  /\ frame.totalInterest > 0
  /\ frame.payment > 0
  /\ frame.payment < phasePayment(frame, call)

\* ------------------------------------------------------------------------
\* The strategy results of the submit handler (specification Spec)
\* ------------------------------------------------------------------------

\* the names of the PSLF and IDR-plan results
forgivenessNames == {"PSLF"} \cup DOMAIN IDR_PLANS

\* C25: for every PSLF and IDR-plan result, totalPayments equals the
\* cumulativePayments of the last yearlyBreakdown entry: no payment is counted
\* for a year after the one in which the simulated balance reached zero.
C25_TotalPaymentsStopAtPayoff ==
  compared => \A i \in DOMAIN results :
    (results[i].strategyName \in forgivenessNames /\ results[i].yearlyBreakdown # <<>>) =>
      results[i].totalPayments =
        results[i].yearlyBreakdown[Len(results[i].yearlyBreakdown)].cumulativePayments

\* C29: every Refinance result for a positive balance has termYears
\* yearlyBreakdown entries, the last with endingBalance 0, forgivenessAmount 0
\* and totalPayments = 12 * monthly payment * termYears.
C29_RefinanceRepaidAtTerm ==
  compared => \A i \in DOMAIN results :
    (results[i].strategyName \in refinanceNames /\ inputs.loans.totalBalance > 0) =>
      /\ Len(results[i].yearlyBreakdown) = results[i].totalYears
      /\ results[i].yearlyBreakdown[results[i].totalYears].endingBalance = 0
      /\ results[i].forgivenessAmount = 0
      /\ results[i].totalPayments =
           12 * results[i].monthlyPaymentRange.min * results[i].totalYears

\* C30: for every result and every credited-payment count in the documented
\* ranges, totalYears is non-negative and is the number of annual payments
\* scheduled (so the breakdown has no more rows than that), and
\* monthlyPaymentRange.min <= monthlyPaymentRange.max.
C30_YearsAndRangeWellFormed ==
  compared => \A i \in DOMAIN results :
    /\ results[i].totalYears >= 0
    /\ Len(results[i].yearlyBreakdown) <= results[i].totalYears
    /\ results[i].monthlyPaymentRange.min <= results[i].monthlyPaymentRange.max

\* ------------------------------------------------------------------------
\* The submit handler resubmitted with another AGI (specification SpecRanking)
\* ------------------------------------------------------------------------

\* the AGI values the form is submitted with
Agis == {0, 65000, 250000}

\* credited PSLF payments across the documented range 0..120
CreditedPayments == {0, 60, 119, 120}

RankingInputsSet ==
  { [ loans |-> [ totalBalance |-> b, weightedInterestRate |-> 650,
                  pslfQualifyingPayments |-> pq, idrQualifyingPayments |-> 0 ],
      personal |-> [ agi |-> 65000, spouseAgi |-> 0, filingStatus |-> "single",
                     familySize |-> 1, state |-> "NY", pslfEligibleEmployer |-> pe ],
      career |-> [ specialty |-> sp, currentStage |-> "pgy1",
                   trainingYearsRemaining |-> 3, expectedAttendingSalary |-> 0 ],
      preferences |-> [ discountRate |-> dr, pslfConfidence |-> c,
                        savePlanAvailable |-> FALSE ] ] :
      b \in Balances, pq \in CreditedPayments, pe \in BOOLEAN,
      sp \in {"family_medicine", "not_listed"}, dr \in {0, 500}, c \in {50, 85} }

InitRanking ==
  /\ pc = "start"
  /\ inputs \in RankingInputsSet
  /\ results = <<>>
  /\ recommendation = undefined
  /\ prevInputs = undefined
  /\ prevResults = undefined
  /\ noCall

\* the form resubmitted with another AGI and everything else unchanged
ChangeAgi(a) ==
  /\ pc = "recommended"
  /\ prevInputs = undefined
  /\ a # inputs.personal.agi
  /\ prevInputs' = inputs
  /\ prevResults' = results
  /\ inputs' = [inputs EXCEPT !.personal.agi = a]
  /\ results' = compareAllStrategies(inputs')
  /\ recommendation' = undefined
  /\ pc' = "compared"
  /\ UNCHANGED <<call, ret, prev, frame>>

NextRanking ==
  \/ Compare
  \/ Recommend
  \/ \E a \in Agis : ChangeAgi(a)

SpecRanking == InitRanking /\ [][NextRanking]_vars

\* a resubmission that changed personal.agi only
agiChanged ==
  /\ prevInputs # undefined
  /\ prevInputs.personal.agi # inputs.personal.agi
  /\ [prevInputs EXCEPT !.personal.agi = inputs.personal.agi] = inputs

\* C26: the result of compareAllStrategies does not depend on personal.agi:
\* two inputs that differ only in personal.agi yield identical ranked lists.
C26_RankingIndependentOfAgi ==
  agiChanged => results = prevResults

\* a ranking with payments computed from income, resubmitted with a higher AGI
C26_Witness ==
  /\ agiChanged
  /\ inputs.personal.agi > prevInputs.personal.agi
  /\ Len(results) = 5
  /\ results[1].monthlyPaymentRange.min > 0
  /\ results = prevResults

\* the positions of the results with a given name
positionsOf(name) == {i \in DOMAIN results : results[i].strategyName = name}

\* the case C27 is about
pslfAndPayeFromScratch ==
  /\ compared
  /\ inputs.personal.pslfEligibleEmployer
  /\ inputs.loans.idrQualifyingPayments = 0
  /\ inputs.preferences.discountRate >= 0
  /\ inputs.loans.pslfQualifyingPayments \in 0..120

\* C27: when pslfEligibleEmployer is true, idrQualifyingPayments = 0,
\* discountRate >= 0 and pslfQualifyingPayments is in 0..120, the PSLF result's
\* npv is at most the PAYE result's npv, PSLF is ranked before PAYE, and PAYE
\* is never the primary strategy of the recommendation.
C27_PslfNotWorseThanPaye ==
  pslfAndPayeFromScratch =>
    /\ positionsOf("PSLF") # {} /\ positionsOf("PAYE") # {}
    /\ \A i \in positionsOf("PSLF") : \A j \in positionsOf("PAYE") :
         /\ results[i].npv <= results[j].npv
         /\ i < j
    /\ pc = "recommended" => recommendation.primaryStrategy.strategyName # "PAYE"

\* a borrower half way to PSLF whose PSLF payments are the first five years of
\* the PAYE payments
C27_Witness ==
  /\ pslfAndPayeFromScratch
  /\ pc = "recommended"
  /\ inputs.loans.pslfQualifyingPayments = 60
  /\ \E i \in positionsOf("PSLF") : \E j \in positionsOf("PAYE") :
       /\ results[i].totalYears = 5
       /\ results[i].npv > 0
       /\ results[i].npv < results[j].npv

====
